---- MODULE Spec2Model ----
(***************************************************************************)
(* State-machine model of the immune-atlas entity store, its synthetic     *)
(* data generator and its aggregation queries.                              *)
(*                                                                          *)
(*   Spec          store life cycle: DatabaseManager.load_sample_data,      *)
(*                 init_db, seed_database, initialize_database              *)
(*   SpecGen       the cell-population loop of one specimen after another   *)
(*                 in _generate_sample_cell_populations                     *)
(*   SpecSpecimens the patient loop of _generate_sample_specimens           *)
(*   SpecQuery     find_discriminating_cell_types on a seeded store         *)
(*   SpecStore     one read of a seeded store: an aggregation query of      *)
(*                 immune_atlas_utils, a getter of DatabaseManager or the   *)
(*                 submission of the deposit form                           *)
(*   SpecBatch     the batched commits of _generate_sample_cell_populations *)
(*                 and _generate_individual_cells                           *)
(*   SpecSeed      the seeding branch of load_sample_data on an empty store,*)
(*                 with the rows and their references                       *)
(*   SpecDelete    session.delete of a row under the relationships the      *)
(*                 models declare                                           *)
(***************************************************************************)
EXTENDS Integers, Sequences, FiniteSets, TLC

VARIABLES
    \* ---- store life cycle (database.py, models.py, database/) ----
    db,        \* location -> content of the SQLite database at that location
    url,       \* location the DatabaseManager's engine/session is bound to
    alive,     \* a DatabaseManager has been constructed in the running process
    faults,    \* storage-layer errors injected so far
    runs,      \* seeding runs started so far (tags the rows a run generates)
    last,      \* what the last call did: operation, outcome, event trace
    pkg,       \* content of the database/ package's store (immune_atlas.db in cwd)
    pkgFile,   \* that file exists
    variant,   \* the store variant the program imports: the name `database`
               \* resolves to database.py ("manager") or to database/ ("package")
    loaded,    \* history: the stores a seed/load call has returned on with
               \* cohorts in them
    \* ---- cell-population generation (database.py 165-193) ----
    j,                       \* cell types of the current specimen handled so far
    total_cells,             \* total_cells of the current specimen
    remaining_percentage,    \* remaining_percentage, in units of 1/Unit
    cell_populations_batch,  \* the populations generated for the current specimen
    \* ---- specimen generation (database.py 108-141) ----
    patients_done,           \* patients the loop has handled
    specimen_id,             \* the next specimen_id
    specimens,               \* the specimens appended for the last patient handled
    specimens_committed,     \* add_all(specimens) and commit have run
    \* ---- queries (immune_atlas_utils.py) ----
    cohorts,                 \* the cohorts table of the queried store
    patients,                \* the patient table of the queried store
    specimen_table,          \* the specimens table: specimen_id -> its columns
    populations,             \* the cell_populations table of the queried store
    cells,                   \* the cells table of the queried store
    query,                   \* the arguments of the last query call
    df,                      \* the rows the last query fetched, before filtering
    result,                  \* the rows the last query call returned
    \* ---- batched commits (database.py 143-297) ----
    phase,                   \* "idle", "populations", "cells", "done" or "raised"
    specimen_count,          \* len(specimens) of the population loop
    draws,                   \* the random draws of the run: [profile, total]
    processed,               \* specimens the population loop has handled
    next_population_id,      \* cell_id of the population loop: the next id
    session_new,             \* populations added to the session, not committed
    commits,                 \* the commits of the run, each with what it wrote
    cell_populations,        \* session.query(CellPopulation).all() of the cell loop
    pop_index,               \* populations the cell loop has finished
    cells_generated,         \* cells generated for the current population
    next_cell_id,            \* cell_id of the cell loop: the next id
    next_marker_id,          \* marker_id of the cell loop: the next id
    cells_batch,             \* cells_batch
    markers_batch,           \* markers_batch
    \* ---- the seeding branch, row by row (database.py 43-46, 64-207) ----
    seeding,                 \* stage, draws and loop state of the seeding run
    \* ---- deletion through the ORM (models.py, database/models.py) ----
    orm                      \* the rows of the store and the keys deleted so far

lifeVars == <<db, url, alive, faults, runs, last, pkg, pkgFile, variant, loaded>>
genVars == <<j, total_cells, remaining_percentage, cell_populations_batch>>
specimenVars == <<patients_done, specimen_id, specimens, specimens_committed>>
storeVars == <<cohorts, patients, specimen_table, populations, cells>>
queryVars == <<storeVars, query, df, result>>
loopVars ==
    <<phase, specimen_count, draws, processed, next_population_id, session_new,
      commits, cell_populations, pop_index, cells_generated, next_cell_id,
      next_marker_id, cells_batch, markers_batch>>
batchVars == <<loopVars, seeding, orm>>
vars == <<lifeVars, genVars, specimenVars, queryVars, batchVars>>

(***************************************************************************)
(* Bounds of the model                                                      *)
(***************************************************************************)
MaxFaults == 2              \* storage-layer errors injected in one behaviour
MaxRuns == 3                \* seeding runs started in one behaviour
MaxPatients == 1            \* patients after which patient generation stops
Precision == 8              \* significant bits of the binary floating-point format
DrawGrid == 4               \* a uniform draw is one of 0/DrawGrid .. (DrawGrid-1)/DrawGrid
NumPatients == 2            \* patients the specimen loop runs over
MaxRows == 4                \* cell_populations rows of the queried store
MaxCellSpecimens == 2       \* specimens up to which the cell loop is followed

Min(a, b) == IF a <= b THEN a ELSE b
Max(a, b) == IF a >= b THEN a ELSE b

(***************************************************************************)
(* Tables.  A row is <<primary key, run>>: the run that generated it stands *)
(* for its randomly drawn attribute values, so two runs never produce the   *)
(* same row.  The eight cell_populations rows of one specimen are added in  *)
(* one add_all and always committed together: they are one block, keyed by  *)
(* the position of the specimen.  Cells are kept as a count (their ids are  *)
(* 1..n) with the run that generated them.                                  *)
(***************************************************************************)
Ids(t) == {r[1] : r \in t}

NoCells == [n |-> 0, run |-> 0]

EmptyStore ==
    [cohorts |-> {}, patients |-> {}, specimens |-> {},
     cell_populations |-> {}, cells |-> NoCells]

Locations == {"tmp", "home", "mem"}

\* _load_cohorts: the literal cohort list (cohort_id, patients_count)
cohorts_data ==
    << [cohort_id |-> 1, patients_count |-> 34],
       [cohort_id |-> 2, patients_count |-> 79],
       [cohort_id |-> 3, patients_count |-> 257],
       [cohort_id |-> 4, patients_count |-> 142],
       [cohort_id |-> 5, patients_count |-> 12] >>

\* Cohort.patients_count as the generator reads it back
PatientsCountOf(cohort_id) ==
    IF \E i \in 1..Len(cohorts_data) : cohorts_data[i].cohort_id = cohort_id
    THEN LET i == CHOOSE i \in 1..Len(cohorts_data) :
                      cohorts_data[i].cohort_id = cohort_id
         IN cohorts_data[i].patients_count
    ELSE 0

RECURSIVE SumOver(_, _)
SumOver(S, f) ==
    IF S = {} THEN 0
    ELSE LET x == CHOOSE x \in S : TRUE IN f[x] + SumOver(S \ {x}, f)

\* the number of cell types, of cells per population and the two batch sizes
NumCellTypes == 8
max_cells_per_population == 100
population_batch_size == 500
cell_batch_size == 1000

\* a primary-key column: an INSERT of a key the table holds fails the commit
PKConflict(table, rows) == Ids(table) \cap Ids(rows) # {}

(***************************************************************************)
(* DatabaseManager's seeding pipeline (database.py).  Each stage either     *)
(* commits or raises; a storage-layer error may be injected at any commit   *)
(* while the budget b allows.  An outcome is [db, ok, cost].                *)
(***************************************************************************)
Outcome(s, ok, c) == [db |-> s, ok |-> ok, cost |-> c]

\* a trigger that seeds whatever the count is (variant of ShouldSeed)
ShouldSeedAlways(cohort_count) == cohort_count >= 0

\* the seeding trigger of load_sample_data: `if cohort_count == 0`
ShouldSeed(cohort_count) == cohort_count = 0

\* _load_cohorts: the rows of cohorts_data, with their literal cohort_id
LoadCohortRows(run) ==
    {<<cohorts_data[i].cohort_id, run>> : i \in 1..Len(cohorts_data)}

\* _generate_sample_patients: patients_count patients per stored cohort,
\* patient_id counting from 1 (the model stops after MaxPatients patients)
GeneratePatientRows(s, run) ==
    LET C == Ids(s.cohorts)
        P == Min(MaxPatients, SumOver(C, [c \in C |-> PatientsCountOf(c)]))
    IN {<<p, run>> : p \in 1..P}

\* _generate_sample_specimens: randint(2, 6) specimens per stored patient,
\* specimen_id counting from 1; the total is any number in 2P..5P
SpecimenTotals(s) ==
    LET P == Cardinality(s.patients) IN (2 * P)..(5 * P)

GenerateSpecimenRows(run, n) == {<<i, run>> : i \in 1..n}

\* cells generated for the populations of one specimen: min(100, cell_count)
\* per population, with cell_count at least the cap in this specification
CellsPerBlock == NumCellTypes * max_cells_per_population

\* number of commits that write n items in batches of size
Commits(n, size) == (n + size - 1) \div size

\* _generate_individual_cells: one commit per cell_batch_size cells and one
\* for the rest; the k-th commit failing leaves k-1 batches committed
CellOutcomes(s, run, b, c) ==
    LET T == Cardinality(s.cell_populations) * CellsPerBlock
        K == Commits(T, cell_batch_size)
    IN IF T = 0 THEN {Outcome(s, TRUE, c)}
       ELSE IF s.cells.n > 0 THEN {Outcome(s, FALSE, c)}
       ELSE {Outcome([s EXCEPT !.cells = [n |-> T, run |-> run]], TRUE, c)}
            \cup (IF b > c
                  THEN {Outcome([s EXCEPT !.cells =
                                    IF k = 1 THEN NoCells
                                    ELSE [n |-> (k - 1) * cell_batch_size,
                                          run |-> run]],
                                FALSE, c + 1) : k \in 1..K}
                  ELSE {})

\* _generate_sample_cell_populations: one block per stored specimen, a commit
\* every population_batch_size specimens and after the last one, then the cells
PopulationOutcomes(s, run, b, c) ==
    LET S == Cardinality(s.specimens)
        K == Commits(S, population_batch_size)
        Upto(n) == [s EXCEPT !.cell_populations = @ \cup {<<i, run>> : i \in 1..n}]
    IN IF S = 0 THEN CellOutcomes(s, run, b, c)
       ELSE IF s.cell_populations # {} THEN {Outcome(s, FALSE, c)}
       ELSE CellOutcomes(Upto(S), run, b, c)
            \cup (IF b > c
                  THEN {Outcome(Upto(Min(S, (k - 1) * population_batch_size)),
                                FALSE, c + 1) : k \in 1..K}
                  ELSE {})

SpecimenOutcomes(s, run, b, c) ==
    UNION { LET rows == GenerateSpecimenRows(run, n)
            IN IF PKConflict(s.specimens, rows) THEN {Outcome(s, FALSE, c)}
               ELSE PopulationOutcomes([s EXCEPT !.specimens = @ \cup rows],
                                       run, b, c)
          : n \in SpecimenTotals(s) }
    \cup (IF b > c THEN {Outcome(s, FALSE, c + 1)} ELSE {})

PatientOutcomes(s, run, b, c) ==
    LET rows == GeneratePatientRows(s, run)
    IN IF PKConflict(s.patients, rows) THEN {Outcome(s, FALSE, c)}
       ELSE SpecimenOutcomes([s EXCEPT !.patients = @ \cup rows], run, b, c)
            \cup (IF b > c THEN {Outcome(s, FALSE, c + 1)} ELSE {})

\* the four calls of load_sample_data's seeding branch, in order
SeedOutcomes(s, run, b, c) ==
    LET rows == LoadCohortRows(run)
    IN IF PKConflict(s.cohorts, rows) THEN {Outcome(s, FALSE, c)}
       ELSE PatientOutcomes([s EXCEPT !.cohorts = @ \cup rows], run, b, c)
            \cup (IF b > c THEN {Outcome(s, FALSE, c + 1)} ELSE {})

(***************************************************************************)
(* init_db (models.py): create_all at the URL; on a permission error of a   *)
(* sqlite URL the database in the home directory, and if that fails too a   *)
(* fresh in-memory database; any other error is re-raised.                  *)
(* An outcome is [url, ok, cost, ev].                                       *)
(***************************************************************************)
InitOutcomes(loc, b) ==
    {[url |-> loc, ok |-> TRUE, cost |-> 0, ev |-> "init_ok"]}
    \cup (IF loc # "mem" /\ b >= 1
          THEN {[url |-> loc, ok |-> FALSE, cost |-> 1, ev |-> "init_error"],
                [url |-> "home", ok |-> TRUE, cost |-> 1, ev |-> "init_alt"]}
          ELSE {})
    \cup (IF loc # "mem" /\ b >= 2
          THEN {[url |-> "mem", ok |-> TRUE, cost |-> 2, ev |-> "init_mem"]}
          ELSE {})

\* create_all leaves the tables of a database file alone; an in-memory
\* database is a new, empty one for every engine
AfterInit(d, loc) == IF loc = "mem" THEN [d EXCEPT !["mem"] = EmptyStore] ELSE d

\* a check that also fills the patient table of a store that holds cohorts
\* (variant of CheckAndSeed)
CheckAndFill(d, loc, r, b, c) ==
    LET s == d[loc]
        f == [s EXCEPT !.patients = IF @ = {} THEN {<<1, r + 1>>} ELSE @]
    IN (IF b > c
        THEN {[db |-> d, runs |-> r, ok |-> FALSE, trace |-> <<"count_error">>,
               cost |-> c + 1]}
        ELSE {})
       \cup
       (IF s.cohorts = {}
        THEN {[db |-> [d EXCEPT ![loc] = o.db], runs |-> r + 1, ok |-> o.ok,
               trace |-> <<"count_ok",
                           IF o.ok THEN "seed_ok" ELSE "seed_error">>,
               cost |-> o.cost] : o \in SeedOutcomes(s, r + 1, b, c)}
        ELSE {[db |-> [d EXCEPT ![loc] = f], runs |-> r + 1, ok |-> TRUE,
               trace |-> <<"count_ok", "seed_ok">>, cost |-> c]})

(***************************************************************************)
(* load_sample_data, the whole call.  A result is                           *)
(* [db, url, runs, outcome, trace, cost].                                   *)
(***************************************************************************)
\* the emptiness check and the seeding that follows it, on the store at loc
CheckAndSeed(d, loc, r, b, c) ==
    LET s == d[loc]
    IN (IF b > c
        THEN {[db |-> d, runs |-> r, ok |-> FALSE, trace |-> <<"count_error">>,
               cost |-> c + 1]}
        ELSE {})
       \cup
       (IF ShouldSeed(Cardinality(s.cohorts))
        THEN {[db |-> [d EXCEPT ![loc] = o.db], runs |-> r + 1, ok |-> o.ok,
               trace |-> <<"count_ok",
                           IF o.ok THEN "seed_ok" ELSE "seed_error">>,
               cost |-> o.cost] : o \in SeedOutcomes(s, r + 1, b, c)}
        ELSE {[db |-> d, runs |-> r, ok |-> TRUE, trace |-> <<"count_ok">>,
               cost |-> c]})

\* an except block that re-initialises once more when its own retry fails
\* (variant of Retry)
RetryTwice(t, loc, b) ==
    UNION { UNION { IF u.ok
                    THEN {[db |-> u.db, url |-> i.url, runs |-> u.runs,
                           outcome |-> "returned",
                           trace |-> t.trace \o <<i.ev>> \o u.trace,
                           cost |-> u.cost]}
                    ELSE {[db |-> v.db, url |-> i.url, runs |-> v.runs,
                           outcome |-> IF v.ok THEN "returned" ELSE "raised",
                           trace |-> t.trace \o <<i.ev>> \o u.trace
                                     \o <<"init_ok">> \o v.trace,
                           cost |-> v.cost]
                          : v \in CheckAndSeed(AfterInit(u.db, i.url), i.url,
                                               u.runs, b, u.cost)}
                  : u \in CheckAndSeed(AfterInit(t.db, i.url), i.url, t.runs, b,
                                       t.cost + i.cost) }
          : i \in {x \in InitOutcomes(loc, b - t.cost) : x.ok} }

\* the except block: one init_db, a new session, one more check and seeding
Retry(t, loc, b) ==
    UNION { IF ~i.ok
            THEN {[db |-> t.db, url |-> loc, runs |-> t.runs, outcome |-> "raised",
                   trace |-> t.trace \o <<i.ev>>, cost |-> t.cost + i.cost]}
            ELSE {[db |-> u.db, url |-> i.url, runs |-> u.runs,
                   outcome |-> IF u.ok THEN "returned" ELSE "raised",
                   trace |-> t.trace \o <<i.ev>> \o u.trace, cost |-> u.cost]
                  : u \in CheckAndSeed(AfterInit(t.db, i.url), i.url, t.runs, b,
                                       t.cost + i.cost)}
          : i \in InitOutcomes(loc, b - t.cost) }

LoadSampleDataResults(d, loc, r, b) ==
    UNION { IF t.ok
            THEN {[db |-> t.db, url |-> loc, runs |-> t.runs, outcome |-> "returned",
                   trace |-> t.trace, cost |-> t.cost]}
            ELSE Retry(t, loc, b)
          : t \in CheckAndSeed(d, loc, r, b, 0) }

(***************************************************************************)
(* The database/ package: db_connect.init_db, seed_data.seed_database and   *)
(* initialize_database, on the store immune_atlas.db of the working         *)
(* directory.                                                               *)
(***************************************************************************)
PkgEmpty ==
    [cohorts |-> {}, markers |-> {}, timepoints |-> {}, marker_data |-> {},
     cell_type_data |-> {}]

PkgStages == <<"cohorts", "markers", "timepoints", "marker_data", "cell_type_data">>

\* twelve cohorts with ids assigned after the stored ones (variant of
\* SeedCohortRows)
SeedCohortRowsAuto(s, run) ==
    {<<Cardinality(s.cohorts) + i, run>> : i \in 1..12}

\* seed_cohorts: twelve cohorts with the literal ids 1..12
SeedCohortRows(s, run) == {<<i, run>> : i \in 1..12}

\* seed_markers: marker_id counts from 1 over the 44 names of marker_categories
SeedMarkerRows(s, run) == {<<i, run>> : i \in 1..44}

\* seed_timepoints: five timepoints with the literal ids 1..5
SeedTimepointRows(s, run) == {<<i, run>> : i \in 1..5}

\* seed_marker_data: builds marker_data_objects and returns; the list is
\* never passed to session.add_all, so no row reaches the session
SeedMarkerDataRows(s, run) == {}

\* seed_cell_type_data: nine cell types per stored cohort, data_id from 1
SeedCellTypeRows(s, run) ==
    {<<i, run>> : i \in 1..(9 * Cardinality(s.cohorts))}

PkgRows(stage, s, run) ==
    CASE stage = "cohorts" -> SeedCohortRows(s, run)
      [] stage = "markers" -> SeedMarkerRows(s, run)
      [] stage = "timepoints" -> SeedTimepointRows(s, run)
      [] stage = "marker_data" -> SeedMarkerDataRows(s, run)
      [] stage = "cell_type_data" -> SeedCellTypeRows(s, run)

\* the try block of seed_database from its k-th seed function on
RECURSIVE PkgSeedFrom(_, _, _, _, _)
PkgSeedFrom(k, s, run, b, c) ==
    IF k > Len(PkgStages) THEN {Outcome(s, TRUE, c)}
    ELSE LET f == PkgStages[k]
             rows == PkgRows(f, s, run)
         IN IF PKConflict(s[f], rows) THEN {Outcome(s, FALSE, c)}
            ELSE PkgSeedFrom(k + 1, [s EXCEPT ![f] = @ \cup rows], run, b, c)
                 \cup (IF b > c THEN {Outcome(s, FALSE, c + 1)} ELSE {})

\* seed_database: init_db outside the try; inside it the five seed functions,
\* any exception rolled back, printed and swallowed.
\* A result is [pkg, file, runs, outcome, trace, cost].
SeedDatabaseResults(s, file, r, b, c) ==
    (IF b > c
     THEN {[pkg |-> s, file |-> file, runs |-> r, outcome |-> "raised",
            trace |-> <<"init_error">>, cost |-> c + 1]}
     ELSE {})
    \cup {[pkg |-> o.db, file |-> TRUE, runs |-> r + 1, outcome |-> "returned",
           trace |-> <<"init_ok", IF o.ok THEN "seed_ok" ELSE "seed_error">>,
           cost |-> o.cost] : o \in PkgSeedFrom(1, s, r + 1, b, c)}

\* initialize_database: init_db and seed_database if the file does not exist
InitializeDatabaseResults(s, file, r, b) ==
    IF ~file
    THEN (IF b > 0
          THEN {[pkg |-> s, file |-> file, runs |-> r, outcome |-> "raised",
                 trace |-> <<"init_error">>, cost |-> 1]}
          ELSE {})
         \cup {[x EXCEPT !.trace = <<"init_ok">> \o @]
               : x \in SeedDatabaseResults(s, TRUE, r, b, 0)}
    ELSE {[pkg |-> s, file |-> file, runs |-> r, outcome |-> "returned",
           trace |-> <<"skip">>, cost |-> 0]}

(***************************************************************************)
(* The store life cycle                                                     *)
(***************************************************************************)
(***************************************************************************)
(* Cell-population generation: the loop body of                            *)
(* _generate_sample_cell_populations.  Percentages are binary floating-     *)
(* point numbers with Precision significant bits (53 in the program), held  *)
(* as integers in units of 1/Unit; every arithmetic result is rounded to    *)
(* the nearest representable number, ties to even.                          *)
(***************************************************************************)
Abs(n) == IF n >= 0 THEN n ELSE -n

\* numbers below 2^4 lie on the grid of 1/Unit, larger ones are rounded
Unit == 2 ^ (Precision - 4)

RECURSIVE BitLen(_)
BitLen(n) == IF n = 0 THEN 0 ELSE 1 + BitLen(n \div 2)

\* spacing of the representable numbers around n
Ulp(n) == 2 ^ Max(0, BitLen(Abs(n)) - Precision)

\* num/den rounded to the nearest integer, ties to even (den > 0)
RoundDiv(num, den) ==
    LET q == num \div den
        r == num % den
    IN IF 2 * r < den THEN q
       ELSE IF 2 * r > den THEN q + 1
       ELSE IF q % 2 = 0 THEN q ELSE q + 1

\* the floating-point number nearest to num/den
Fl(num, den) ==
    LET step == Ulp(Abs(num) \div den)
    IN step * RoundDiv(num, den * step)

\* round((percentage / 100) * total_cells): the exact quotient
\* percentage * total / (100 * Unit) rounded to the nearest integer, ties to
\* the even one (variant of CellCount)
CellCountRounded(percentage, total) ==
    LET a == Abs(percentage)
        z == a * (total \div 100) + (a * (total % 100)) \div 100
        f == (z % Unit) * 100 + ((a * (total % 100)) % 100)
        q == z \div Unit
        c == IF 2 * f > 100 * Unit \/ (2 * f = 100 * Unit /\ q % 2 = 1)
             THEN q + 1 ELSE q
    IN IF percentage >= 0 THEN c ELSE -c

\* cell_count = int((percentage / 100) * total_cells): the exact quotient
\* percentage * total / (100 * Unit), truncated towards zero
CellCount(percentage, total) ==
    LET a == Abs(percentage)
        c == (a * (total \div 100) + (a * (total % 100)) \div 100) \div Unit
    IN IF percentage >= 0 THEN c ELSE -c

\* np.random.randint(100000, 1000000): the ends of the range
TotalCellsDraws == {100000, 999999}

\* max_pct = min(remaining_percentage * 0.8, 50)
MaxPct(remaining) == Min(Fl(remaining * 4, 5), 50 * Unit)

\* np.random.uniform(0.5, max_pct) = low + (high - low) * u with u = k/DrawGrid
Uniform(low, high, k) == Fl(low * DrawGrid + (high - low) * k, DrawGrid)

\* a generator that draws the percentage of every cell type (variant of
\* PercentageOf)
PercentageAllDrawn(jj, remaining, k) == Uniform(Unit \div 2, MaxPct(remaining), k)

\* the percentage of the cell type at index jj: the last one takes the rest
PercentageOf(jj, remaining, k) ==
    IF jj = NumCellTypes - 1
    THEN remaining
    ELSE Uniform(Unit \div 2, MaxPct(remaining), k)

\* the state of the loop before the first cell type of a specimen
GenStart(total) ==
    /\ j = 0
    /\ total_cells = total
    /\ remaining_percentage = 100 * Unit
    /\ cell_populations_batch = <<>>

GenIdle == GenStart(100000)

(***************************************************************************)
(* Specimen generation: _generate_sample_specimens.  The specimen_type and  *)
(* drug_class of a specimen are independent draws that no later draw        *)
(* depends on; the records here carry the id, the patient and the timepoint.*)
(***************************************************************************)
timepoints == <<"Baseline", "C1D1", "C1D14", "C2D1", "C2D14">>

\* np.random.randint(low, high): low <= n < high
Randint(low, high) == low..(high - 1)

\* a draw of size elements of a with repetition allowed (variant of Choice)
ChoiceWithReplacement(a, size) ==
    {[i \in 1..size |-> a[f[i]]] : f \in [1..size -> 1..Len(a)]}

\* np.random.choice(a, size, replace=False): size distinct elements, in any order
Choice(a, size) ==
    {[i \in 1..size |-> a[f[i]]] :
        f \in {g \in [1..size -> 1..Len(a)] :
                  \A x, y \in 1..size : x # y => g[x] # g[y]}}

\* the state before the patient loop
SpecimensStart ==
    /\ patients_done = 0
    /\ specimen_id = 1
    /\ specimens = <<>>
    /\ specimens_committed = FALSE

(***************************************************************************)
(* Batched commits: the specimen loop of _generate_sample_cell_populations  *)
(* and the cell loop of _generate_individual_cells.  A population is        *)
(* [id, specimen_id, cell_type, cell_count, percentage], a cell             *)
(* [cell_id, specimen_id, population_id], a marker measurement              *)
(* [id, cell_id, marker_name]; intensity and positive are random values     *)
(* that no branch of the loops reads, and are left out.                     *)
(***************************************************************************)
\* the markers dictionary, by the position of the cell type in cell_types
markers ==
    << <<"CD3", "CD4", "CD45RA", "CCR7", "CD62L">>,
       <<"CD3", "CD4", "CD45RO", "CD27">>,
       <<"CD3", "CD8", "CD45RA", "CCR7", "CD62L">>,
       <<"CD3", "CD8", "CD45RO", "CD27">>,
       <<"CD56", "CD16", "NKG2D", "CD3-">>,
       <<"CD19", "CD20", "HLA-DR">>,
       <<"CD14", "CD11b", "CD33", "HLA-DR">>,
       <<"CD11c", "HLA-DR", "CD86", "CD83">> >>

\* markers.get(population.cell_type, ["CD45"])
CellMarkers(cell_type) ==
    IF cell_type \in DOMAIN markers THEN markers[cell_type] ELSE <<"CD45">>

\* the uniform draws of one specimen, one per cell type but the last: all at
\* the low end, all at the high end, the last one low after high ones, or the
\* last one low and the one before it a step below the high end
DrawProfiles ==
    << [x \in 1..(NumCellTypes - 1) |-> 0],
       [x \in 1..(NumCellTypes - 1) |-> DrawGrid - 1],
       [x \in 1..(NumCellTypes - 1) |->
            IF x = NumCellTypes - 1 THEN 0 ELSE DrawGrid - 1],
       [x \in 1..(NumCellTypes - 1) |->
            IF x = NumCellTypes - 1 THEN 0
            ELSE IF x = NumCellTypes - 2 THEN DrawGrid - 2
            ELSE DrawGrid - 1] >>

\* the draws of the specimen at position pos of a run that starts with profile
ProfileOf(d, pos) == DrawProfiles[((d.profile + pos) % Len(DrawProfiles)) + 1]

\* the populations of one specimen from cell type jj on: cell_populations_batch
RECURSIVE SpecimenPopulations(_, _, _, _, _, _)
SpecimenPopulations(jj, remaining, total, profile, sid, first_id) ==
    IF jj = NumCellTypes THEN <<>>
    ELSE LET percentage ==
                 PercentageOf(jj, remaining,
                              IF jj < NumCellTypes - 1 THEN profile[jj + 1] ELSE 0)
             rest == IF jj = NumCellTypes - 1 THEN remaining
                     ELSE Fl(remaining - percentage, 1)
         IN <<[id |-> first_id + jj, specimen_id |-> sid, cell_type |-> jj + 1,
               cell_count |-> CellCount(percentage, total),
               percentage |-> percentage]>>
            \o SpecimenPopulations(jj + 1, rest, total, profile, sid, first_id)

\* np.random.uniform(0.5, max_pct) is called with max_pct < 0.5 for one of the
\* cell types from jj on
RECURSIVE UniformOutOfOrder(_, _, _)
UniformOutOfOrder(jj, remaining, profile) ==
    IF jj >= NumCellTypes - 1 THEN FALSE
    ELSE \/ MaxPct(remaining) < Unit \div 2
         \/ UniformOutOfOrder(jj + 1,
                              Fl(remaining - PercentageOf(jj, remaining,
                                                          profile[jj + 1]), 1),
                              profile)

\* `if (i + 1) % batch_size == 0 or i == len(specimens) - 1`, pos = i + 1
PopulationCommitDue(pos, n) == pos % population_batch_size = 0 \/ pos = n

\* a limit of one cell more (variant of CellsToGenerate)
CellsToGenerateOneMore(population) ==
    Min(max_cells_per_population + 1, population.cell_count)

\* cells_to_generate = min(max_cells_per_population, population.cell_count)
CellsToGenerate(population) ==
    Min(max_cells_per_population, population.cell_count)

\* the CellMarker objects of the cell cid, their ids counting from first_id
MarkersOfCell(population, cid, first_id) ==
    LET names == CellMarkers(population.cell_type)
    IN [x \in 1..Len(names) |->
           [id |-> first_id + x - 1, cell_id |-> cid, marker_name |-> names[x]]]

\* a commit condition that lets one more cell in (variant of CellCommitDue)
CellCommitLate(batch) == Len(batch) > cell_batch_size

\* `if len(cells_batch) >= batch_size`
CellCommitDue(batch) == Len(batch) >= cell_batch_size

\* what a commit writes: the objects of the session, in the order of add_all
Commit(pops, cs, ms) == [populations |-> pops, cells |-> cs, markers |-> ms]

\* the loop state of _generate_individual_cells
LoopState(cs, ms, cid, mid, log) ==
    [cells_batch |-> cs, markers_batch |-> ms, cell_id |-> cid, marker_id |-> mid,
     commits |-> log]

\* one pass of `for j in range(cells_to_generate)`
AfterCell(population, st) ==
    LET cell == [cell_id |-> st.cell_id,
                 specimen_id |-> population.specimen_id,
                 population_id |-> population.id]
        ms == MarkersOfCell(population, st.cell_id, st.marker_id)
        cs_batch == Append(st.cells_batch, cell)
        ms_batch == st.markers_batch \o ms
    IN IF CellCommitDue(cs_batch)
       THEN LoopState(<<>>, <<>>, st.cell_id + 1, st.marker_id + Len(ms),
                      Append(st.commits, Commit(<<>>, cs_batch, ms_batch)))
       ELSE LoopState(cs_batch, ms_batch, st.cell_id + 1, st.marker_id + Len(ms),
                      st.commits)

\* the numbers of specimens a run is started with
SpecimenCounts ==
    {0, 1, MaxCellSpecimens, population_batch_size, population_batch_size + 1}

\* no row is held for deletion
NoRows == [rows |-> {}, deleted |-> {}]

\* the seeding branch has not started
NoSeeding ==
    [stage |-> "idle", draw |-> 0, rows |-> <<>>, done |-> 0, next_id |-> 1,
     pending |-> <<>>]

\* the state before _generate_sample_cell_populations over n specimens
BatchStart(ph, n, d) ==
    /\ phase = ph
    /\ specimen_count = n
    /\ draws = d
    /\ processed = 0
    /\ next_population_id = 1
    /\ session_new = <<>>
    /\ commits = <<>>
    /\ cell_populations = <<>>
    /\ pop_index = 0
    /\ cells_generated = 0
    /\ next_cell_id = 1
    /\ next_marker_id = 1
    /\ cells_batch = <<>>
    /\ markers_batch = <<>>

\* neither the batched loops nor the seeding branch are running
BatchIdle ==
    /\ BatchStart("idle", 0, [profile |-> 0, total |-> 100000])
    /\ seeding = NoSeeding
    /\ orm = NoRows

(***************************************************************************)
(* The queried store and find_discriminating_cell_types.  Percentages and   *)
(* averages are floating-point numbers in units of 1/Unit.                  *)
(***************************************************************************)
\* specimen_id -> patient_id of the specimens of the queried store
SpecimenPatient == <<1, 1, 2, 3>>

\* the cell types of the queried store, in the order they are inserted
QueryCellTypes == <<"NK Cells", "B Cells">>

\* the percentages a population of the queried store has, in percent
QueryPercentages == {5, 7, 10, 20}

\* the patients: responder is a draw, the cohort one of two
PatientTables ==
    {{[patient_id |-> 1, cohort_id |-> 1, responder |-> TRUE],
      [patient_id |-> 2, cohort_id |-> 1, responder |-> r2],
      [patient_id |-> 3, cohort_id |-> c3, responder |-> FALSE]}
     : r2 \in BOOLEAN, c3 \in {1, 2}}

NoQuery == [op |-> "none", outcome |-> "none", fault |-> FALSE]

QueryStart(pats) ==
    /\ cohorts = {}
    /\ patients = pats
    /\ specimen_table = <<>>
    /\ populations = {}
    /\ cells = {}
    /\ query = NoQuery
    /\ df = <<>>
    /\ result = <<>>

QueryIdle == QueryStart({})

\* position of a population row in insertion order: by specimen, then cell type
Slot(specimen, type) == (specimen - 1) * Len(QueryCellTypes) + type

RECURSIVE SumPct(_)
SumPct(rows) ==
    IF rows = {} THEN 0
    ELSE LET r == CHOOSE x \in rows : TRUE
         IN r.percentage + SumPct(rows \ {r})

\* the mean of the per-patient means of the rows (variant of Avg)
AvgOfPatientMeans(rows) ==
    LET P == {SpecimenPatient[r.specimen_id] : r \in rows}
        of(pid) == {r \in rows : SpecimenPatient[r.specimen_id] = pid}
        means == {[patient_id |-> pid,
                   percentage |-> Fl(SumPct(of(pid)), Cardinality(of(pid)))]
                  : pid \in P}
    IN Fl(SumPct(means), Cardinality(means))

\* func.avg(CellPopulation.percentage) over the rows of a group
Avg(rows) == Fl(SumPct(rows), Cardinality(rows))

\* CellPopulation joined to Specimen and Patient, filtered by cohort and
\* responder flag
JoinFilter(pats, pops, cohort_id, responder) ==
    {r \in pops :
        \E pt \in pats : /\ pt.patient_id = SpecimenPatient[r.specimen_id]
                         /\ pt.cohort_id = cohort_id
                         /\ pt.responder = responder}

\* a subquery: one row per cell type of the group, with the group's average
Subquery(pats, pops, cohort_id, responder) ==
    LET rows == JoinFilter(pats, pops, cohort_id, responder)
    IN {[cell_type |-> c, avg |-> Avg({r \in rows : r.cell_type = c})]
        : c \in {r.cell_type : r \in rows}}

\* an outer join of the two subqueries: a cell type of one subquery only is
\* paired with an average of 0 (variant of JoinSubqueries)
JoinSubqueriesOuter(resp, non) ==
    LET avgIn(sub, c) ==
            IF \E x \in sub : x.cell_type = c
            THEN (CHOOSE x \in sub : x.cell_type = c).avg
            ELSE 0
    IN {[cell_type |-> c,
         avg_percentage_responder |-> avgIn(resp, c),
         avg_percentage_non_responder |-> avgIn(non, c),
         difference |-> Fl(avgIn(resp, c) - avgIn(non, c), 1),
         abs_difference |-> Abs(Fl(avgIn(resp, c) - avgIn(non, c), 1))]
        : c \in {x.cell_type : x \in resp \cup non}}

\* the inner join of the two subqueries on cell_type, with the differences
JoinSubqueries(resp, non) ==
    {[cell_type |-> a.cell_type,
      avg_percentage_responder |-> a.avg,
      avg_percentage_non_responder |-> b.avg,
      difference |-> Fl(a.avg - b.avg, 1),
      abs_difference |-> Abs(Fl(a.avg - b.avg, 1))]
     : <<a, b>> \in {x \in resp \X non : x[1].cell_type = x[2].cell_type}}

\* the orders of the rows with abs_difference going up (variant of OrderByDesc)
OrderByAsc(rows) ==
    {s \in [1..Cardinality(rows) -> rows] :
        /\ \A r \in rows : \E i \in DOMAIN s : s[i] = r
        /\ \A i \in 1..(Cardinality(rows) - 1) :
              s[i].abs_difference <= s[i + 1].abs_difference}

\* order_by(desc('abs_difference')): every order of the rows in which
\* abs_difference does not go up; rows with equal values may come either way
OrderByDesc(rows) ==
    {s \in [1..Cardinality(rows) -> rows] :
        /\ \A r \in rows : \E i \in DOMAIN s : s[i] = r
        /\ \A i \in 1..(Cardinality(rows) - 1) :
              s[i].abs_difference >= s[i + 1].abs_difference}

\* a filter that keeps only the rows above the threshold (variant of
\* FilterMinDifference)
FilterAboveMinDifference(frame, min_difference) ==
    LET keep(r) == r.abs_difference > min_difference
    IN IF frame # <<>> /\ min_difference > 0 THEN SelectSeq(frame, keep)
       ELSE frame

\* df[df['abs_difference'] >= min_difference], applied to a non-empty frame when
\* min_difference > 0
FilterMinDifference(frame, min_difference) ==
    LET keep(r) == r.abs_difference >= min_difference
    IN IF frame # <<>> /\ min_difference > 0 THEN SelectSeq(frame, keep)
       ELSE frame

\* the frames the query of find_discriminating_cell_types can fetch
DiscriminatingQuery(pats, pops, cohort_id) ==
    OrderByDesc(JoinSubqueries(Subquery(pats, pops, cohort_id, TRUE),
                               Subquery(pats, pops, cohort_id, FALSE)))

\* the arguments <<cohort_id, min_difference>> a call is made with: the
\* default min_difference 5.0 for either cohort, and zero and a negative
\* value for the first
DiscriminatingArgs ==
    {<<1, 5 * Unit>>, <<2, 5 * Unit>>, <<1, 0>>, <<1, -5 * Unit>>}

\* the code points of the characters of the strings the queries order by
Codes(str) ==
    CASE str = "Baseline" -> <<66, 97, 115, 101, 108, 105, 110, 101>>
      [] str = "C1D1" -> <<67, 49, 68, 49>>
      [] str = "C1D14" -> <<67, 49, 68, 49, 52>>
      [] str = "C2D1" -> <<67, 50, 68, 49>>
      [] str = "C2D14" -> <<67, 50, 68, 49, 52>>
      [] str = "NK Cells" -> <<78, 75, 32, 67, 101, 108, 108, 115>>
      [] str = "B Cells" -> <<66, 32, 67, 101, 108, 108, 115>>
      [] str = "PD-1" -> <<80, 68, 45, 49>>
      [] str = "TCR" -> <<84, 67, 82>>

\* a < b in the binary collation of text values: the first differing
\* character decides, a proper prefix comes first
LexLess(a, b) ==
    \E i \in 1..(Min(Len(a), Len(b)) + 1) :
        /\ \A k \in 1..(i - 1) : a[k] = b[k]
        /\ \/ i > Len(a) /\ i <= Len(b)
           \/ i <= Len(a) /\ i <= Len(b) /\ a[i] < b[i]

(***************************************************************************)
(* The store the aggregation queries and the getters read: the patients,    *)
(* the specimens with their timepoint, specimen type and drug class, and    *)
(* the cell populations of two cell types per specimen.                     *)
(***************************************************************************)
\* the value of a nullable column that is not set
NULL == "NULL"

specimen_types == <<"Blood", "Tumor">>

drug_classes == <<NULL, "TCR", "PD-1">>

\* the elements of a sequence
Range(seq) == {seq[i] : i \in DOMAIN seq}

\* the rows a specimen of the store is drawn from, by specimen_id: the first
\* and the third vary most, the second is a blood specimen under TCR, the
\* fourth a Baseline blood specimen without drug
SpecimenDraws ==
    <<[timepoint : Range(timepoints), specimen_type : {"Blood"},
       drug_class : Range(drug_classes)],
      [timepoint : Range(timepoints), specimen_type : {"Blood"},
       drug_class : {"TCR"}],
      [timepoint : Range(timepoints), specimen_type : Range(specimen_types),
       drug_class : {NULL, "TCR"}],
      [timepoint : {"Baseline"}, specimen_type : {"Blood"},
       drug_class : {NULL}]>>

\* specimens tables in which a patient can have two specimens of one
\* timepoint (variant of SpecimenTables)
SpecimenTablesRepeating ==
    {<<a, b, c, d>> : a \in SpecimenDraws[1], b \in SpecimenDraws[2],
                      c \in SpecimenDraws[3], d \in SpecimenDraws[4]}

\* the specimens tables: the specimens of one patient have different timepoints
SpecimenTables ==
    {t \in {<<a, b, c, d>> : a \in SpecimenDraws[1], b \in SpecimenDraws[2],
                             c \in SpecimenDraws[3], d \in SpecimenDraws[4]} :
        \A x, y \in DOMAIN t :
            x # y /\ SpecimenPatient[x] = SpecimenPatient[y]
                => t[x].timepoint # t[y].timepoint}

\* percentage of the populations of the store, by specimen_id and cell type
StorePercentages == <<<<10, 5>>, <<20, 7>>, <<5, 10>>, <<7, 20>>>>

\* cell_count of a population of the store with the given percentage
StoreCellCount(pct) == CellCount(pct * Unit, 1000)

\* the cell_populations table: every specimen has a row for every cell type
StorePopulations ==
    {[specimen_id |-> sp, type_index |-> type,
      cell_type |-> QueryCellTypes[type],
      percentage |-> StorePercentages[sp][type] * Unit,
      cell_count |-> StoreCellCount(StorePercentages[sp][type])]
     : sp \in DOMAIN SpecimenPatient, type \in DOMAIN QueryCellTypes}

\* the patients tables of the store: the first two patients are responders
StorePatientTables ==
    {t \in PatientTables : \A pt \in t : pt.patient_id = 2 => pt.responder}

\* the patient a population row is joined to
PatientOf(pats, r) ==
    CHOOSE pt \in pats : pt.patient_id = SpecimenPatient[r.specimen_id]

RECURSIVE SumCount(_)
SumCount(rows) ==
    IF rows = {} THEN 0
    ELSE LET r == CHOOSE x \in rows : TRUE
         IN r.cell_count + SumCount(rows \ {r})

\* func.avg(CellPopulation.cell_count) over the rows of a group
AvgCount(rows) == Fl(SumCount(rows) * Unit, Cardinality(rows))

\* a count of the joined rows of a group (variant of PatientCount)
RowCount(rows) == Cardinality(rows)

\* func.count(distinct(Patient.patient_id)) over the rows of a group
PatientCount(rows) == Cardinality({SpecimenPatient[r.specimen_id] : r \in rows})

\* df["responder"].map({True: "Responder", False: "Non-Responder"})
ResponderStatus(responder) ==
    IF responder THEN "Responder" ELSE "Non-Responder"

\* the rows of a result set in every order
RowOrders(rows) ==
    {s \in [1..Cardinality(rows) -> rows] :
        \A r \in rows : \E i \in DOMAIN s : s[i] = r}

\* get_cell_type_comparison: Patient joined to Specimen and CellPopulation,
\* filtered by cohort and cell type, and by the timepoints unless the list is
\* None or empty
ComparisonRows(pats, specs, pops, cohort_id, cell_type, tps) ==
    {r \in pops :
        /\ \E pt \in pats : pt.patient_id = SpecimenPatient[r.specimen_id]
        /\ PatientOf(pats, r).cohort_id = cohort_id
        /\ r.cell_type = cell_type
        /\ tps # <<>> => specs[r.specimen_id].timepoint \in Range(tps)}

\* a key that leaves the drug class out (variant of ComparisonKey)
ComparisonKeyWithoutDrug(pats, specs, r) ==
    [responder |-> PatientOf(pats, r).responder,
     timepoint |-> specs[r.specimen_id].timepoint,
     specimen_type |-> specs[r.specimen_id].specimen_type,
     drug_class |-> NULL]

\* group_by(Patient.responder, Specimen.timepoint, Specimen.specimen_type,
\* Specimen.drug_class): the group a joined row falls in
ComparisonKey(pats, specs, r) ==
    [responder |-> PatientOf(pats, r).responder,
     timepoint |-> specs[r.specimen_id].timepoint,
     specimen_type |-> specs[r.specimen_id].specimen_type,
     drug_class |-> specs[r.specimen_id].drug_class]

\* one result row per group, with the aggregates of the group's rows
ComparisonGroups(pats, specs, rows) ==
    {LET g == {r \in rows : ComparisonKey(pats, specs, r) = key}
     IN [responder |-> key.responder,
         timepoint |-> key.timepoint,
         specimen_type |-> key.specimen_type,
         drug_class |-> key.drug_class,
         avg_percentage |-> Avg(g),
         avg_cell_count |-> AvgCount(g),
         patient_count |-> PatientCount(g),
         responder_status |-> ResponderStatus(key.responder)]
     : key \in {ComparisonKey(pats, specs, r) : r \in rows}}

\* the groups in any order (variant of OrderByTimepoint)
Unordered(groups) == RowOrders(groups)

\* order_by(Specimen.timepoint): the text values in ascending collation order,
\* groups of one timepoint either way
OrderByTimepoint(groups) ==
    {s \in RowOrders(groups) :
        \A i, k \in DOMAIN s :
            i < k => ~LexLess(Codes(s[k].timepoint), Codes(s[i].timepoint))}

\* the frames get_cell_type_comparison can return
GetCellTypeComparison(pats, specs, pops, cohort_id, cell_type, tps) ==
    OrderByTimepoint(ComparisonGroups(pats, specs,
        ComparisonRows(pats, specs, pops, cohort_id, cell_type, tps)))

\* get_cell_type_distribution_by_drug: the join filtered by cohort, cell type
\* and Specimen.drug_class != None
DrugRows(pats, specs, pops, cohort_id, cell_type) ==
    {r \in pops :
        /\ \E pt \in pats : pt.patient_id = SpecimenPatient[r.specimen_id]
        /\ PatientOf(pats, r).cohort_id = cohort_id
        /\ r.cell_type = cell_type
        /\ specs[r.specimen_id].drug_class # NULL}

\* group_by(Patient.responder, Specimen.drug_class)
DrugKey(pats, specs, r) ==
    [responder |-> PatientOf(pats, r).responder,
     drug_class |-> specs[r.specimen_id].drug_class]

DrugGroups(pats, specs, rows) ==
    {LET g == {r \in rows : DrugKey(pats, specs, r) = key}
     IN [responder |-> key.responder,
         drug_class |-> key.drug_class,
         avg_percentage |-> Avg(g),
         patient_count |-> PatientCount(g),
         responder_status |-> ResponderStatus(key.responder)]
     : key \in {DrugKey(pats, specs, r) : r \in rows}}

\* order_by(Specimen.drug_class, Patient.responder): False before True
OrderByDrugResponder(groups) ==
    {s \in RowOrders(groups) :
        \A i, k \in DOMAIN s :
            i < k =>
                \/ LexLess(Codes(s[i].drug_class), Codes(s[k].drug_class))
                \/ /\ s[i].drug_class = s[k].drug_class
                   /\ ~s[i].responder /\ s[k].responder}

\* the frames get_cell_type_distribution_by_drug can return
GetCellTypeDistributionByDrug(pats, specs, pops, cohort_id, cell_type) ==
    OrderByDrugResponder(DrugGroups(pats, specs,
        DrugRows(pats, specs, pops, cohort_id, cell_type)))

\* the SQL functions the metrics query of calculate_response_prediction_metrics
\* calls: func.literal, func.avg, func.count, func.sum
MetricsFunctions == {"literal", "avg", "count", "sum"}

\* the functions of the engine of the store, SQLite, among those the queries
\* of this module call
EngineFunctions == {"avg", "count", "sum", "abs"}

\* distinct(CellPopulation.cell_type) of the populations of a cohort
CohortCellTypes(pats, pops, cohort_id) ==
    {r.cell_type : r \in {x \in pops :
        /\ \E pt \in pats : pt.patient_id = SpecimenPatient[x.specimen_id]
        /\ PatientOf(pats, x).cohort_id = cohort_id}}

\* the avg_percentages subquery: one row per patient of the cohort with rows
\* of the cell type, holding the patient's average
PatientAverages(pats, pops, cohort_id, cell_type) ==
    LET rows == {r \in pops :
                    /\ \E pt \in pats :
                          pt.patient_id = SpecimenPatient[r.specimen_id]
                    /\ PatientOf(pats, r).cohort_id = cohort_id
                    /\ r.cell_type = cell_type}
    IN {[patient_id |-> pid,
         responder |-> (CHOOSE pt \in pats : pt.patient_id = pid).responder,
         percentage |->
             Avg({r \in rows : SpecimenPatient[r.specimen_id] = pid})]
        : pid \in {SpecimenPatient[r.specimen_id] : r \in rows}}

\* the row metrics_query.one() gives once the engine has run the query: avg
\* over a CASE without a match is NULL, and so is a difference with a NULL
\* operand and a sum over no rows
MetricsRow(pats, pops, cohort_id, cell_type) ==
    LET means == PatientAverages(pats, pops, cohort_id, cell_type)
        resp == {m \in means : m.responder}
        non == {m \in means : ~m.responder}
    IN [cell_type |-> cell_type,
        avg_responder |-> IF resp = {} THEN NULL ELSE Avg(resp),
        avg_non_responder |-> IF non = {} THEN NULL ELSE Avg(non),
        difference |-> IF resp = {} \/ non = {} THEN NULL
                       ELSE Fl(Avg(resp) - Avg(non), 1),
        patient_count |-> Cardinality(means),
        responder_count |-> IF means = {} THEN NULL ELSE Cardinality(resp),
        non_responder_count |-> IF means = {} THEN NULL ELSE Cardinality(non)]

\* calculate_response_prediction_metrics: the cell types of the cohort stand
\* in for a missing or empty list; the loop builds and runs the metrics query
\* for each cell type, and the engine rejects a query that calls a function it
\* does not have; without a cell type an empty frame is returned
CalculateResponsePredictionMetrics(pats, pops, cohort_id, cell_types) ==
    LET types == IF cell_types = <<>>
                 THEN CohortCellTypes(pats, pops, cohort_id)
                 ELSE Range(cell_types)
    IN IF types = {}
       THEN {[outcome |-> "returned", result |-> <<>>]}
       ELSE IF MetricsFunctions \subseteq EngineFunctions
       THEN {[outcome |-> "returned", result |-> rows] :
                rows \in RowOrders({MetricsRow(pats, pops, cohort_id, c)
                                       : c \in types})}
       ELSE {[outcome |-> "raised", result |-> <<>>]}

\* the cohorts table of the store: the first three cohorts of the seed
StoreCohorts == {cohorts_data[i] : i \in 1..3}

\* the cells table of the store: two cells of the first population
StoreCells ==
    {[cell_id |-> 1, specimen_id |-> 1, population_id |-> 1],
     [cell_id |-> 2, specimen_id |-> 1, population_id |-> 1]}

\* CellPopulation.id: the rows are numbered in the order they are inserted
PopulationId(r) == Slot(r.specimen_id, r.type_index)

\* query.all() without an ORDER BY: the rows in any order
All(rows) == RowOrders(rows)

\* DatabaseManager.get_cohorts
GetCohorts(cohs) == All(cohs)

\* DatabaseManager.get_cohort_patients
GetCohortPatients(pats, cohort_id) ==
    All({pt \in pats : pt.cohort_id = cohort_id})

\* DatabaseManager.get_patient_specimens
GetPatientSpecimens(specs, patient_id) ==
    All({[specimen_id |-> sp, patient_id |-> SpecimenPatient[sp],
          timepoint |-> specs[sp].timepoint,
          specimen_type |-> specs[sp].specimen_type,
          drug_class |-> specs[sp].drug_class]
         : sp \in {x \in DOMAIN specs : SpecimenPatient[x] = patient_id}})

\* DatabaseManager.get_specimen_cell_populations
GetSpecimenCellPopulations(pops, sp) ==
    All({[id |-> PopulationId(r), specimen_id |-> r.specimen_id,
          cell_type |-> r.cell_type, cell_count |-> r.cell_count,
          percentage |-> r.percentage]
         : r \in {x \in pops : x.specimen_id = sp}})

\* DatabaseManager.get_population_cells
GetPopulationCells(cls, population_id) ==
    All({[cell_id |-> c.cell_id]
         : c \in {x \in cls : x.population_id = population_id}})

\* DatabaseManager.get_cell_details: None for a cell that is not stored
GetCellDetails(cls, pops, cell_id) ==
    IF \A c \in cls : c.cell_id # cell_id THEN <<>>
    ELSE LET c == CHOOSE x \in cls : x.cell_id = cell_id
             pop == {r \in pops : PopulationId(r) = c.population_id}
         IN <<[cell_id |-> c.cell_id, specimen_id |-> c.specimen_id,
               population_id |-> c.population_id,
               cell_type |-> IF pop = {} THEN "Unknown"
                             ELSE (CHOOSE r \in pop : TRUE).cell_type,
               markers |-> <<>>]>>

\* the names the module immune_atlas_utils binds at its top level: the imports
\* and the functions
UtilsGlobals ==
    {"pd", "np", "plt", "sns", "Session", "func", "case", "desc", "and_",
     "Float", "distinct", "Cohort", "Patient", "Specimen", "CellPopulation",
     "get_cell_type_comparison", "generate_timepoint_chart",
     "find_discriminating_cell_types", "get_cell_type_distribution_by_drug",
     "calculate_response_prediction_metrics", "get_patient_specimens"}

\* the module-level get_patient_specimens(patient_id) of immune_atlas_utils:
\* its first statement reads the global name session
UtilsGetPatientSpecimens(specs, patient_id) ==
    IF "session" \in UtilsGlobals
    THEN {[outcome |-> "returned", result |-> rows] :
             rows \in GetPatientSpecimens(specs, patient_id)}
    ELSE {[outcome |-> "raised", result |-> <<>>]}

\* a submission that adds the deposited cohort and commits (variant of
\* DepositCohorts)
DepositCohortsAdded(cohs, form) ==
    IF form = "valid"
    THEN cohs \cup {[cohort_id |-> 1 + Cardinality(cohs), patients_count |-> 1]}
    ELSE cohs

\* the cohorts table after a submission of the deposit form: the statements
\* that would add a cohort and commit are comments
DepositCohorts(cohs, form) == cohs

\* the message a submission of the deposit form shows
DepositMessage(form) ==
    CASE form = "missing_fields" ->
            "Please fill in all required fields marked with *"
      [] form = "sum_mismatch" ->
            "The sum of Responders, Non-Responders, and Tumor Escaped must equal the Number of Patients"
      [] form = "no_files" -> "Please upload at least one data file"
      [] form = "valid" ->
            "Dataset submitted successfully! Thank you for your contribution."

Call(op, outcome, trace) == [op |-> op, outcome |-> outcome, trace |-> trace]

\* the seed routine was started during the call
Seeded(trace) == \E i \in 1..Len(trace) : trace[i] \in {"seed_ok", "seed_error"}

LifeStart(v) ==
    /\ variant \in v
    /\ db = [l \in Locations |-> EmptyStore]
    /\ url = "tmp"
    /\ alive = (variant = "manager")
    /\ faults = 0
    /\ runs = 0
    /\ last = Call("start", "returned", <<>>)
    /\ pkg = PkgEmpty
    /\ pkgFile = FALSE
    /\ loaded = {}

Init ==
    LifeStart({"manager", "package"}) /\ GenIdle /\ SpecimensStart /\ QueryIdle
    /\ BatchIdle

LifeIdle == LifeStart({"manager"})

\* DatabaseManager.load_sample_data
LoadSampleData ==
    /\ variant = "manager"
    /\ alive
    /\ runs < MaxRuns
    /\ \E x \in LoadSampleDataResults(db, url, runs, MaxFaults - faults) :
          /\ db' = x.db
          /\ url' = x.url
          /\ runs' = x.runs
          /\ faults' = faults + x.cost
          /\ last' = Call("load_sample_data", x.outcome, x.trace)
          /\ loaded' = IF x.outcome = "returned" THEN loaded \cup {x.url}
                        ELSE loaded
    /\ UNCHANGED <<alive, pkg, pkgFile, variant, genVars, specimenVars, queryVars,
                   batchVars>>

\* a new process constructs its DatabaseManager: __init__ with the default URL
Restart ==
    /\ variant = "manager"
    /\ \E i \in InitOutcomes("tmp", MaxFaults - faults) :
          /\ url' = i.url
          /\ alive' = i.ok
          /\ faults' = faults + i.cost
          /\ last' = Call("__init__", IF i.ok THEN "returned" ELSE "raised",
                          <<i.ev>>)
    /\ db' = [db EXCEPT !["mem"] = EmptyStore]
    /\ UNCHANGED <<runs, pkg, pkgFile, variant, loaded, genVars, specimenVars, queryVars,
                   batchVars>>

\* seed_data.seed_database, called directly
SeedDatabase ==
    /\ variant = "package"
    /\ runs < MaxRuns
    /\ \E x \in SeedDatabaseResults(pkg, pkgFile, runs, MaxFaults - faults, 0) :
          /\ pkg' = x.pkg
          /\ pkgFile' = x.file
          /\ runs' = x.runs
          /\ faults' = faults + x.cost
          /\ last' = Call("seed_database", x.outcome, x.trace)
          /\ loaded' = IF /\ x.outcome = "returned" /\ Seeded(x.trace)
                           /\ x.pkg.cohorts # {}
                        THEN loaded \cup {"pkg"}
                        ELSE loaded
    /\ UNCHANGED <<db, url, alive, variant, genVars, specimenVars, queryVars,
                   batchVars>>

\* database.initialize_database
InitializeDatabase ==
    /\ variant = "package"
    /\ runs < MaxRuns
    /\ \E x \in InitializeDatabaseResults(pkg, pkgFile, runs, MaxFaults - faults) :
          /\ pkg' = x.pkg
          /\ pkgFile' = x.file
          /\ runs' = x.runs
          /\ faults' = faults + x.cost
          /\ last' = Call("initialize_database", x.outcome, x.trace)
          /\ loaded' = IF /\ x.outcome = "returned" /\ Seeded(x.trace)
                           /\ x.pkg.cohorts # {}
                        THEN loaded \cup {"pkg"}
                        ELSE loaded
    /\ UNCHANGED <<db, url, alive, variant, genVars, specimenVars, queryVars,
                   batchVars>>

Next ==
    \/ LoadSampleData
    \/ Restart
    \/ SeedDatabase
    \/ InitializeDatabase

Spec == Init /\ [][Next]_vars

(***************************************************************************)
(* Properties of the store life cycle (specification Spec).                 *)
(***************************************************************************)
FileLocations == {"tmp", "home"}

\* the row count of every table of a store
Counts(s) ==
    [cohorts |-> Cardinality(s.cohorts), patients |-> Cardinality(s.patients),
     specimens |-> Cardinality(s.specimens),
     cell_populations |-> NumCellTypes * Cardinality(s.cell_populations),
     cells |-> s.cells.n]
PkgCounts(s) == [f \in DOMAIN s |-> Cardinality(s[f])]

C3_SeedIffNoCohorts ==
    [][ /\ (last'.op = "load_sample_data" /\ last'.trace[1] = "count_ok")
             => (Seeded(last'.trace) <=> db[url].cohorts = {})
        /\ (last'.op = "initialize_database" /\ last'.outcome = "returned")
             => (Seeded(last'.trace) <=> pkg.cohorts = {}) ]_vars

\* C3 (amended): load_sample_data runs the seed routine exactly when its
\* emptiness check finds zero cohorts, in the try block on the store of the
\* call and in the retry on the store bound by the re-initialisation;
\* initialize_database runs it exactly when the database file does not exist,
\* whatever the file holds, and seed_database runs it unconditionally.
C3_SeedTrigger ==
    [][ /\ (last'.op = "load_sample_data" /\ last'.trace[1] = "count_ok")
             => (Seeded(last'.trace) <=> db[url].cohorts = {})
        /\ (/\ last'.op = "load_sample_data" /\ last'.trace[1] = "count_error"
            /\ Len(last'.trace) >= 3 /\ last'.trace[3] = "count_ok")
             => (Len(last'.trace) = 4 <=> AfterInit(db, url')[url'].cohorts = {})
        /\ (last'.op = "initialize_database" /\ pkgFile)
             => ~Seeded(last'.trace)
        /\ (last'.op = "initialize_database" /\ ~pkgFile
                                             /\ last'.outcome = "returned")
             => Seeded(last'.trace)
        /\ (last'.op = "seed_database" /\ last'.outcome = "returned")
             => Seeded(last'.trace) ]_vars

\* initialize_database has skipped the seed routine on a store with no cohort
C3_Witness ==
    /\ last.op = "initialize_database" /\ last.trace = <<"skip">>
    /\ pkgFile /\ pkg.cohorts = {}

InitEvents == {"init_ok", "init_error", "init_alt", "init_mem"}
ErrorEvents == {"count_error", "seed_error"}
NumInits(trace) == Cardinality({i \in 1..Len(trace) : trace[i] \in InitEvents})
HasError(trace) == \E i \in 1..Len(trace) : trace[i] \in ErrorEvents
FirstError(trace) ==
    CHOOSE i \in 1..Len(trace) :
        /\ trace[i] \in ErrorEvents
        /\ \A k \in 1..(i - 1) : trace[k] \notin ErrorEvents

\* C4: a load_sample_data call whose try block raises re-initialises exactly
\* once, then checks emptiness once more and, the store being empty, attempts
\* the seeding once more; a call never re-initialises a second time, and a call
\* whose try block does not raise never re-initialises.
C4_OneRetry ==
    last.op = "load_sample_data" =>
        LET tr == last.trace
        IN IF ~HasError(tr)
           THEN NumInits(tr) = 0
           ELSE LET e == FirstError(tr)
                IN /\ NumInits(tr) = 1
                   /\ Len(tr) >= e + 1 /\ tr[e + 1] \in InitEvents
                   /\ tr[e + 1] = "init_error" => Len(tr) = e + 1
                   /\ tr[e + 1] # "init_error" =>
                         /\ Len(tr) \in {e + 2, e + 3}
                         /\ tr[e + 2] \in {"count_ok", "count_error"}
                         /\ tr[e + 2] = "count_error" => Len(tr) = e + 2
                         /\ (tr[e + 2] = "count_ok" /\ Len(tr) = e + 2)
                               => db[url].cohorts # {}
                         /\ Len(tr) = e + 3
                               => tr[e + 3] \in {"seed_ok", "seed_error"}

\* a call has caught an error, re-initialised, found the store empty and seeded
C4_Witness ==
    /\ last.op = "load_sample_data"
    /\ last.trace = <<"count_error", "init_ok", "count_ok", "seed_ok">>

\* C5 (as stated): no load_sample_data call ends with an exception that
\* reaches its caller.
C5_NeverRaises == last.op = "load_sample_data" => last.outcome = "returned"

(***************************************************************************)
(* Specification SpecGen: the populations of one specimen after another.    *)
(***************************************************************************)
GenInit ==
    /\ LifeIdle
    /\ SpecimensStart
    /\ QueryIdle
    /\ BatchIdle
    /\ \E total \in TotalCellsDraws : GenStart(total)

\* one pass of `for j, cell_type in enumerate(cell_types)`
GeneratePopulation ==
    /\ j < NumCellTypes
    /\ \E k \in 0..(DrawGrid - 1) :
          LET percentage == PercentageOf(j, remaining_percentage, k)
          IN /\ cell_populations_batch' =
                    Append(cell_populations_batch,
                           [cell_type |-> j + 1, percentage |-> percentage,
                            cell_count |-> CellCount(percentage, total_cells)])
             /\ remaining_percentage' =
                    IF j = NumCellTypes - 1 THEN remaining_percentage
                    ELSE Fl(remaining_percentage - percentage, 1)
    /\ j' = j + 1
    /\ UNCHANGED <<total_cells, lifeVars, batchVars, specimenVars, queryVars>>

\* the next pass of `for i, specimen in enumerate(specimens)`
NextSpecimen ==
    /\ j = NumCellTypes
    /\ j' = 0
    /\ total_cells' \in TotalCellsDraws
    /\ remaining_percentage' = 100 * Unit
    /\ cell_populations_batch' = <<>>
    /\ UNCHANGED <<lifeVars, batchVars, specimenVars, queryVars>>

\* np.random.uniform(low, high) with high < low is documented as undefined:
\* it returns low + (high - low) * u, as GeneratePopulation has it, or raises,
\* which ends the generation and discards the uncommitted populations
UniformUndefined ==
    /\ j < NumCellTypes - 1
    /\ MaxPct(remaining_percentage) < Unit \div 2
    /\ j' = 0
    /\ total_cells' \in TotalCellsDraws
    /\ remaining_percentage' = 100 * Unit
    /\ cell_populations_batch' = <<>>
    /\ UNCHANGED <<lifeVars, batchVars, specimenVars, queryVars>>

GenNext == GeneratePopulation \/ NextSpecimen \/ UniformUndefined

SpecGen == GenInit /\ [][GenNext]_vars

RECURSIVE SumPercentage(_)
SumPercentage(batch) ==
    IF batch = <<>> THEN 0
    ELSE batch[Len(batch)].percentage + SumPercentage(SubSeq(batch, 1, Len(batch) - 1))

\* sum(): the percentages added one after the other in floating point
RECURSIVE FlSumPercentage(_)
FlSumPercentage(batch) ==
    IF batch = <<>> THEN 0
    ELSE Fl(FlSumPercentage(SubSeq(batch, 1, Len(batch) - 1))
            + batch[Len(batch)].percentage, 1)

\* C6 (as stated): the percentages of the populations generated for a specimen
\* sum to exactly 100.0, as a sum of the stored numbers or as their
\* floating-point sum.
C6_SumExactly100 ==
    j = NumCellTypes =>
        \/ SumPercentage(cell_populations_batch) = 100 * Unit
        \/ FlSumPercentage(cell_populations_batch) = 100 * Unit

\* C6 (amended): the percentages of the populations generated for a specimen
\* sum to 100.0 up to the rounding of the NumCellTypes - 1 subtractions from
\* the remainder, each at most half a unit in the last place of 100.0.
C6_SumWithinRounding ==
    j = NumCellTypes =>
        2 * Abs(SumPercentage(cell_populations_batch) - 100 * Unit)
            <= (NumCellTypes - 1) * Ulp(100 * Unit)

\* a specimen's populations are complete and their sum is not 100.0
C6_Witness ==
    /\ j = NumCellTypes
    /\ Len(cell_populations_batch) = NumCellTypes
    /\ SumPercentage(cell_populations_batch) # 100 * Unit

\* C7 (as stated): every generated population has a percentage in [0, 100]
\* and a cell_count >= 0, and the remainder is never negative.
C7_Ranges ==
    /\ remaining_percentage >= 0
    /\ \A i \in 1..Len(cell_populations_batch) :
          /\ cell_populations_batch[i].percentage >= 0
          /\ cell_populations_batch[i].percentage <= 100 * Unit
          /\ cell_populations_batch[i].cell_count >= 0

(***************************************************************************)
(* Specification SpecSpecimens: the patient loop and the commit.            *)
(***************************************************************************)
SpecimensInit ==
    LifeIdle /\ GenIdle /\ SpecimensStart /\ QueryIdle /\ BatchIdle

\* one pass of `for patient in patients`
GeneratePatientSpecimens ==
    /\ patients_done < NumPatients
    /\ ~specimens_committed
    /\ \E num_specimens \in Randint(2, 6) :
          \E selected_timepoints \in Choice(timepoints, num_specimens) :
             /\ specimens' =
                    [i \in 1..num_specimens |->
                        [specimen_id |-> specimen_id + i - 1,
                         patient_id |-> patients_done + 1,
                         timepoint |-> selected_timepoints[i]]]
             /\ specimen_id' = specimen_id + num_specimens
    /\ patients_done' = patients_done + 1
    /\ UNCHANGED <<specimens_committed, lifeVars, batchVars, genVars, queryVars>>

\* self.session.add_all(specimens); self.session.commit()
CommitSpecimens ==
    /\ patients_done = NumPatients
    /\ ~specimens_committed
    /\ specimens_committed' = TRUE
    /\ UNCHANGED <<patients_done, specimen_id, specimens, lifeVars, batchVars, genVars,
                   queryVars>>

SpecimensNext == GeneratePatientSpecimens \/ CommitSpecimens

SpecSpecimens == SpecimensInit /\ [][SpecimensNext]_vars

\* C8: the specimens generated for a patient are between 2 and 5, all of that
\* patient, at pairwise different timepoints taken from the five-element
\* vocabulary.
C8_SpecimensPerPatient ==
    patients_done >= 1 =>
        /\ Len(specimens) \in 2..5
        /\ \A i \in 1..Len(specimens) :
              /\ specimens[i].patient_id = patients_done
              /\ specimens[i].timepoint \in
                    {"Baseline", "C1D1", "C1D14", "C2D1", "C2D14"}
        /\ \A x, y \in 1..Len(specimens) :
              x # y => specimens[x].timepoint # specimens[y].timepoint
        /\ specimen_id - 1 \in (2 * patients_done)..(5 * patients_done)

\* the specimens are committed, the last patient having all five timepoints
C8_Witness ==
    /\ specimens_committed
    /\ patients_done = NumPatients
    /\ Len(specimens) = 5

(***************************************************************************)
(* Specification SpecQuery: a store is seeded row by row and queried.       *)
(***************************************************************************)
QueryInit ==
    /\ LifeIdle /\ GenIdle /\ SpecimensStart /\ BatchIdle
    /\ \E pats \in PatientTables : QueryStart(pats)

\* the seeding adds the next population row, in insertion order
AddPopulation ==
    /\ query.op = "none"
    /\ Cardinality(populations) < MaxRows
    /\ \E specimen \in DOMAIN SpecimenPatient, type \in DOMAIN QueryCellTypes,
          pct \in QueryPercentages :
          /\ \A r \in populations :
                Slot(r.specimen_id, r.type_index) < Slot(specimen, type)
          /\ populations' = populations \cup
                {[specimen_id |-> specimen, type_index |-> type,
                  cell_type |-> QueryCellTypes[type],
                  percentage |-> pct * Unit]}
    /\ UNCHANGED <<cohorts, patients, specimen_table, cells, query, df, result,
                   lifeVars, batchVars, genVars, specimenVars>>

\* find_discriminating_cell_types(session, cohort_id, min_difference), the
\* call a behaviour ends with
FindDiscriminating ==
    /\ query.op = "none"
    /\ \E args \in DiscriminatingArgs :
          /\ query' = [op |-> "find_discriminating_cell_types",
                       outcome |-> "returned", fault |-> FALSE,
                       cohort_id |-> args[1],
                       min_difference |-> args[2]]
          /\ df' \in DiscriminatingQuery(patients, populations, args[1])
          /\ result' = FilterMinDifference(df', args[2])
    /\ UNCHANGED <<storeVars, lifeVars, batchVars, genVars, specimenVars>>

QueryNext == AddPopulation \/ FindDiscriminating

SpecQuery == QueryInit /\ [][QueryNext]_vars

\* C9: the rows find_discriminating_cell_types returns are in non-increasing
\* order of abs_difference; in every row difference is the responder average
\* minus the non-responder average and abs_difference is its absolute value.
C9_OrderedByAbsDifference ==
    query.op = "find_discriminating_cell_types" =>
        /\ \A i \in 1..(Len(result) - 1) :
              result[i].abs_difference >= result[i + 1].abs_difference
        /\ \A i \in 1..Len(result) :
              /\ result[i].difference =
                    Fl(result[i].avg_percentage_responder
                       - result[i].avg_percentage_non_responder, 1)
              /\ result[i].abs_difference =
                    (IF result[i].difference >= 0 THEN result[i].difference
                     ELSE -result[i].difference)

\* two rows are returned, the first with the larger abs_difference, one of
\* them with a negative difference
C9_Witness ==
    /\ query.op = "find_discriminating_cell_types"
    /\ Len(result) = 2
    /\ result[1].abs_difference > result[2].abs_difference
    /\ \E i \in 1..2 : result[i].difference < 0

\* the population rows of a cell type in one response group of a cohort
GroupRows(cohort_id, responder, cell_type) ==
    {r \in populations :
        /\ r.cell_type = cell_type
        /\ \E pt \in patients : /\ pt.patient_id = SpecimenPatient[r.specimen_id]
                                 /\ pt.cohort_id = cohort_id
                                 /\ pt.responder = responder}

\* C10: each group average of a returned row is the flat mean of the
\* percentages of all population rows of that cell type in the group, every row
\* counting once however many specimens its patient has.
C10_FlatMean ==
    query.op = "find_discriminating_cell_types" =>
        \A i \in 1..Len(result) :
            LET R == GroupRows(query.cohort_id, TRUE, result[i].cell_type)
                N == GroupRows(query.cohort_id, FALSE, result[i].cell_type)
            IN /\ R # {} /\ N # {}
               /\ result[i].avg_percentage_responder =
                     Fl(SumPct(R), Cardinality(R))
               /\ result[i].avg_percentage_non_responder =
                     Fl(SumPct(N), Cardinality(N))

\* responder rows 10 and 20 against non-responder rows 5 and 7 give the
\* averages 15 and 6, the difference 9 and the abs_difference 9
C10_Witness ==
    /\ query.op = "find_discriminating_cell_types"
    /\ Len(result) = 1
    /\ {r.percentage : r \in GroupRows(query.cohort_id, TRUE, result[1].cell_type)}
          = {10 * Unit, 20 * Unit}
    /\ {r.percentage : r \in GroupRows(query.cohort_id, FALSE, result[1].cell_type)}
          = {5 * Unit, 7 * Unit}
    /\ result[1].avg_percentage_responder = 15 * Unit
    /\ result[1].avg_percentage_non_responder = 6 * Unit
    /\ result[1].difference = 9 * Unit
    /\ result[1].abs_difference = 9 * Unit

\* C11: find_discriminating_cell_types returns exactly the fetched rows whose
\* abs_difference is at least min_difference, in the order they were fetched
\* in; a row whose abs_difference equals min_difference is kept, and with
\* min_difference <= 0 no row is removed.
C11_ThresholdFilter ==
    query.op = "find_discriminating_cell_types" =>
        LET atLeast(r) == r.abs_difference >= query.min_difference
        IN /\ result = SelectSeq(df, atLeast)
           /\ query.min_difference <= 0 => result = df

\* two rows are fetched, one with abs_difference equal to the threshold, which
\* is kept, and one below it, which is removed
C11_Witness ==
    /\ query.op = "find_discriminating_cell_types"
    /\ query.min_difference = 5 * Unit
    /\ Len(df) = 2
    /\ df[1].abs_difference = query.min_difference
    /\ df[2].abs_difference < query.min_difference
    /\ result = <<df[1]>>

StoreInit ==
    /\ LifeIdle /\ GenIdle /\ SpecimensStart /\ BatchIdle
    /\ cohorts = StoreCohorts
    /\ patients \in StorePatientTables
    /\ specimen_table \in SpecimenTables
    /\ populations = StorePopulations
    /\ cells = StoreCells
    /\ query = NoQuery
    /\ df = <<>>
    /\ result = <<>>

\* a cohort_id, patient_id, specimen_id or cell_id without a row in the store
UnknownId == 9

\* a cell type without a row in the store
UnknownCellType == "Plasma Cells"

\* the call ends: its arguments, whether a read of the store failed, its
\* outcome and the rows it returned
Reply(op, args, fault, outcome, rows) ==
    /\ query' = [op |-> op, outcome |-> outcome, fault |-> fault,
                 args |-> args]
    /\ result' = rows
    /\ UNCHANGED <<lifeVars, batchVars, genVars, specimenVars>>

\* an aggregation query has no handler around its reads: a failing read ends
\* the call with the exception
Propagates(op, args, fault, frames) ==
    /\ IF fault THEN Reply(op, args, TRUE, "raised", <<>>)
       ELSE \E rows \in frames : Reply(op, args, FALSE, "returned", rows)
    /\ UNCHANGED <<storeVars, df>>

\* a getter runs in try/except Exception: a failing read makes it return the
\* empty value
Catches(op, args, fault, lists) ==
    /\ IF fault THEN Reply(op, args, TRUE, "returned", <<>>)
       ELSE \E rows \in lists : Reply(op, args, FALSE, "returned", rows)
    /\ UNCHANGED <<storeVars, df>>

ComparisonArgs ==
    {<<1, "NK Cells", <<>>>>, <<1, "NK Cells", <<"Baseline", "C1D1">>>>,
     <<UnknownId, "NK Cells", <<>>>>, <<1, UnknownCellType, <<>>>>}

\* get_cell_type_comparison(session, cohort_id, cell_type, timepoints)
Comparison ==
    /\ query.op = "none"
    /\ \E args \in ComparisonArgs, fault \in BOOLEAN :
           Propagates("get_cell_type_comparison", args, fault,
                      GetCellTypeComparison(patients, specimen_table, populations,
                                            args[1], args[2], args[3]))

DrugArgs ==
    {<<1, "NK Cells">>, <<UnknownId, "NK Cells">>, <<1, UnknownCellType>>}

\* get_cell_type_distribution_by_drug(session, cohort_id, cell_type)
DistributionByDrug ==
    /\ query.op = "none"
    /\ \E args \in DrugArgs, fault \in BOOLEAN :
           Propagates("get_cell_type_distribution_by_drug", args, fault,
                      GetCellTypeDistributionByDrug(patients, specimen_table,
                                                    populations, args[1], args[2]))

MetricsArgs ==
    {<<1, <<>>>>, <<2, <<>>>>, <<1, <<"NK Cells">>>>, <<UnknownId, <<>>>>,
     <<UnknownId, <<"NK Cells">>>>, <<1, <<UnknownCellType>>>>}

\* calculate_response_prediction_metrics(session, cohort_id, cell_types)
PredictionMetrics ==
    /\ query.op = "none"
    /\ \E args \in MetricsArgs, fault \in BOOLEAN :
          IF fault THEN Reply("calculate_response_prediction_metrics", args,
                              TRUE, "raised", <<>>)
          ELSE \E r \in CalculateResponsePredictionMetrics(
                            patients, populations, args[1], args[2]) :
                  Reply("calculate_response_prediction_metrics", args,
                        FALSE, r.outcome, r.result)
    /\ UNCHANGED <<storeVars, df>>

\* find_discriminating_cell_types(session, cohort_id, min_difference) on the
\* store, with the default min_difference
Discriminating ==
    /\ query.op = "none"
    /\ \E cohort_id \in {1, UnknownId}, fault \in BOOLEAN :
          LET args == <<cohort_id, 5 * Unit>>
          IN IF fault
             THEN /\ Reply("find_discriminating_cell_types", args, TRUE,
                           "raised", <<>>)
                  /\ UNCHANGED df
             ELSE /\ df' \in DiscriminatingQuery(patients, populations,
                                                  cohort_id)
                  /\ Reply("find_discriminating_cell_types", args, FALSE,
                           "returned", FilterMinDifference(df', args[2]))
    /\ UNCHANGED storeVars

\* get_patient_specimens(patient_id) of immune_atlas_utils
UtilsPatientSpecimens ==
    /\ query.op = "none"
    /\ \E patient_id \in {1, UnknownId} :
          \E r \in UtilsGetPatientSpecimens(specimen_table, patient_id) :
              Reply("utils.get_patient_specimens", <<patient_id>>,
                    FALSE, r.outcome, r.result)
    /\ UNCHANGED <<storeVars, df>>

GetCohortsCall ==
    /\ query.op = "none"
    /\ \E fault \in BOOLEAN :
           Catches("get_cohorts", <<>>, fault, GetCohorts(cohorts))

\* cohort 3 is stored without patients
GetCohortPatientsCall ==
    /\ query.op = "none"
    /\ \E cohort_id \in {1, 3, UnknownId}, fault \in BOOLEAN :
           Catches("get_cohort_patients", <<cohort_id>>, fault,
                   GetCohortPatients(patients, cohort_id))

GetPatientSpecimensCall ==
    /\ query.op = "none"
    /\ \E patient_id \in {1, UnknownId}, fault \in BOOLEAN :
           Catches("get_patient_specimens", <<patient_id>>, fault,
                   GetPatientSpecimens(specimen_table, patient_id))

GetSpecimenCellPopulationsCall ==
    /\ query.op = "none"
    /\ \E sp \in {1, UnknownId}, fault \in BOOLEAN :
           Catches("get_specimen_cell_populations", <<sp>>, fault,
                   GetSpecimenCellPopulations(populations, sp))

\* population 2 is stored without cells
GetPopulationCellsCall ==
    /\ query.op = "none"
    /\ \E population_id \in {1, 2}, fault \in BOOLEAN :
           Catches("get_population_cells", <<population_id>>, fault,
                   GetPopulationCells(cells, population_id))

GetCellDetailsCall ==
    /\ query.op = "none"
    /\ \E cell_id \in {1, UnknownId}, fault \in BOOLEAN :
           Catches("get_cell_details", <<cell_id>>, fault,
                   {GetCellDetails(cells, populations, cell_id)})

\* the Submit Dataset button of show_data_deposit_section
DepositSubmit ==
    /\ query.op = "none"
    /\ \E form \in {"missing_fields", "sum_mismatch", "no_files", "valid"} :
          /\ Reply("deposit", <<form>>, FALSE, "returned",
                   <<DepositMessage(form)>>)
          /\ cohorts' = DepositCohorts(cohorts, form)
    /\ UNCHANGED <<patients, specimen_table, populations, cells, df>>

StoreNext ==
    \/ Comparison
    \/ DistributionByDrug
    \/ PredictionMetrics
    \/ Discriminating
    \/ UtilsPatientSpecimens
    \/ GetCohortsCall
    \/ GetCohortPatientsCall
    \/ GetPatientSpecimensCall
    \/ GetSpecimenCellPopulationsCall
    \/ GetPopulationCellsCall
    \/ GetCellDetailsCall
    \/ DepositSubmit

SpecStore == StoreInit /\ [][StoreNext]_vars

\* position of a timepoint in the chronological vocabulary
Chronological(tp) == CHOOSE i \in DOMAIN timepoints : timepoints[i] = tp

\* C13: the rows get_cell_type_comparison returns are ordered by timepoint in
\* the chronological order Baseline, C1D1, C1D14, C2D1, C2D14: no row of a
\* later timepoint precedes a row of an earlier one.
C13_ChronologicalOrder ==
    query.op = "get_cell_type_comparison" /\ query.outcome = "returned" =>
        \A i, k \in 1..Len(result) :
            i < k => Chronological(result[i].timepoint)
                        <= Chronological(result[k].timepoint)

\* three rows are returned, of Baseline, C1D14 and C2D1 in this order
C13_Witness ==
    /\ query.op = "get_cell_type_comparison"
    /\ query.outcome = "returned"
    /\ Len(result) = 3
    /\ result[1].timepoint = "Baseline"
    /\ result[2].timepoint = "C1D14"
    /\ result[3].timepoint = "C2D1"

\* the population rows of the store joined to a patient of the cohort, of the
\* cell type and, with a timepoint list, of one of its timepoints
MatchingRows(cohort_id, cell_type, tps) ==
    {r \in populations :
        /\ r.cell_type = cell_type
        /\ \E pt \in patients : /\ pt.patient_id = SpecimenPatient[r.specimen_id]
                                 /\ pt.cohort_id = cohort_id
        /\ tps # <<>> =>
              \E i \in DOMAIN tps :
                  tps[i] = specimen_table[r.specimen_id].timepoint}

\* the responder flag of the patient of a population row
ResponderOf(r) ==
    (CHOOSE pt \in patients :
        pt.patient_id = SpecimenPatient[r.specimen_id]).responder

\* C14: the groups of get_cell_type_comparison partition the matching rows:
\* every population row of the cohort, the cell type and, with a list, the
\* listed timepoints lies in exactly one returned group, the one of its
\* responder flag, timepoint, specimen type and drug class, a missing drug
\* class being a value of the key; the aggregates of a group are taken over
\* its matching rows only.
C14_GroupsPartition ==
    query.op = "get_cell_type_comparison" /\ query.outcome = "returned" =>
        LET M == MatchingRows(query.args[1], query.args[2], query.args[3])
            key(r) == <<ResponderOf(r),
                        specimen_table[r.specimen_id].timepoint,
                        specimen_table[r.specimen_id].specimen_type,
                        specimen_table[r.specimen_id].drug_class>>
            rowkey(g) == <<g.responder, g.timepoint, g.specimen_type,
                           g.drug_class>>
        IN /\ \A r \in M :
                Cardinality({i \in 1..Len(result) :
                                rowkey(result[i]) = key(r)}) = 1
           /\ \A i \in 1..Len(result) :
                LET g == {r \in M : key(r) = rowkey(result[i])}
                IN /\ g # {}
                   /\ result[i].avg_percentage = Fl(SumPct(g), Cardinality(g))
                   /\ result[i].patient_count =
                         Cardinality({SpecimenPatient[r.specimen_id] : r \in g})

\* a call with a timepoint list returns a group without drug class that holds
\* the rows of two patients, while the store has a row of the cohort outside
\* the listed timepoints and a patient in another cohort
C14_Witness ==
    /\ query.op = "get_cell_type_comparison"
    /\ query.outcome = "returned"
    /\ query.args[3] # <<>>
    /\ \E i \in 1..Len(result) :
          /\ result[i].drug_class = NULL
          /\ result[i].patient_count = 2
    /\ \E sp \in DOMAIN specimen_table :
          /\ \A i \in DOMAIN query.args[3] :
                query.args[3][i] # specimen_table[sp].timepoint
          /\ \E pt \in patients : /\ pt.patient_id = SpecimenPatient[sp]
                                   /\ pt.cohort_id = query.args[1]
    /\ \E pt \in patients : pt.cohort_id # query.args[1]

\* C15: get_cell_type_distribution_by_drug returns one row for every pair of
\* responder flag and drug class among the rows of the cohort and cell type
\* that have a drug class; rows without a drug class contribute to no returned
\* row; avg_percentage is the mean of the percentages of the rows of the group
\* and patient_count the number of distinct patients among them.
C15_DrugGroups ==
    query.op = "get_cell_type_distribution_by_drug"
        /\ query.outcome = "returned" =>
        LET M == {r \in MatchingRows(query.args[1], query.args[2], <<>>) :
                    specimen_table[r.specimen_id].drug_class # NULL}
            key(r) == <<ResponderOf(r), specimen_table[r.specimen_id].drug_class>>
            rowkey(g) == <<g.responder, g.drug_class>>
        IN /\ \A r \in M :
                Cardinality({i \in 1..Len(result) :
                                rowkey(result[i]) = key(r)}) = 1
           /\ \A i \in 1..Len(result) :
                LET g == {r \in M : key(r) = rowkey(result[i])}
                IN /\ g # {}
                   /\ result[i].drug_class # NULL
                   /\ result[i].avg_percentage = Fl(SumPct(g), Cardinality(g))
                   /\ result[i].patient_count =
                         Cardinality({SpecimenPatient[r.specimen_id] : r \in g})

\* a returned group holds two rows of one patient and counts one patient,
\* while a row of the cohort and cell type has no drug class
C15_Witness ==
    /\ query.op = "get_cell_type_distribution_by_drug"
    /\ query.outcome = "returned"
    /\ \E i \in 1..Len(result) :
          /\ result[i].patient_count = 1
          /\ Cardinality({r \in MatchingRows(query.args[1], query.args[2], <<>>) :
                /\ specimen_table[r.specimen_id].drug_class = result[i].drug_class
                /\ ResponderOf(r) = result[i].responder}) = 2
    /\ \E r \in MatchingRows(query.args[1], query.args[2], <<>>) :
          specimen_table[r.specimen_id].drug_class = NULL

\* the cell types a call of calculate_response_prediction_metrics reports on:
\* the listed ones or, without a list, those of the cohort
ReportedCellTypes(cohort_id, cell_types) ==
    IF cell_types # <<>> THEN {cell_types[i] : i \in DOMAIN cell_types}
    ELSE {r.cell_type : r \in {x \in populations :
            \E pt \in patients : /\ pt.patient_id = SpecimenPatient[x.specimen_id]
                                  /\ pt.cohort_id = cohort_id}}

\* C16: calculate_response_prediction_metrics reports a cell type whose
\* responder group or non-responder group has no patient with that group's
\* average and the difference missing, never 0.
C16_MissingNotZero ==
    query.op = "calculate_response_prediction_metrics" /\ ~query.fault =>
        \A c \in ReportedCellTypes(query.args[1], query.args[2]) :
            LET M == MatchingRows(query.args[1], c, <<>>)
                noResp == \A r \in M : ~ResponderOf(r)
                noNon == \A r \in M : ResponderOf(r)
            IN noResp \/ noNon =>
                  /\ query.outcome = "returned"
                  /\ \E i \in 1..Len(result) :
                        /\ result[i].cell_type = c
                        /\ noResp => result[i].avg_responder = NULL
                        /\ noNon => result[i].avg_non_responder = NULL
                        /\ result[i].difference = NULL

\* C17: for a cohort id or a cell type without rows in the store every
\* aggregation query returns an empty collection and does not raise.
C17_UnknownGivesEmpty ==
    LET unknown ==
            CASE query.op \in {"get_cell_type_comparison",
                               "get_cell_type_distribution_by_drug"} ->
                    \/ query.args[1] = UnknownId
                    \/ query.args[2] = UnknownCellType
              [] query.op = "find_discriminating_cell_types" ->
                    query.args[1] = UnknownId
              [] query.op = "calculate_response_prediction_metrics" ->
                    \/ query.args[1] = UnknownId
                    \/ \E i \in DOMAIN query.args[2] :
                          query.args[2][i] = UnknownCellType
    IN query.op \in {"get_cell_type_comparison",
                     "find_discriminating_cell_types",
                     "get_cell_type_distribution_by_drug",
                     "calculate_response_prediction_metrics"}
           /\ ~query.fault /\ unknown
       => query.outcome = "returned" /\ result = <<>>

\* C18: a list operation on a parent without children returns an empty list
\* and no error: get_patient_specimens for a patient without specimens,
\* get_cohort_patients for a cohort without patients,
\* get_specimen_cell_populations and get_population_cells likewise.
C18_NoChildrenGivesEmpty ==
    LET id == query.args[1]
        childless ==
            CASE query.op \in {"get_patient_specimens",
                               "utils.get_patient_specimens"} ->
                    \A sp \in DOMAIN specimen_table : SpecimenPatient[sp] # id
              [] query.op = "get_cohort_patients" ->
                    \A pt \in patients : pt.cohort_id # id
              [] query.op = "get_specimen_cell_populations" ->
                    \A r \in populations : r.specimen_id # id
              [] query.op = "get_population_cells" ->
                    \A c \in cells : c.population_id # id
    IN query.op \in {"get_patient_specimens", "utils.get_patient_specimens",
                     "get_cohort_patients", "get_specimen_cell_populations",
                     "get_population_cells"}
           /\ ~query.fault /\ childless
       => query.outcome = "returned" /\ result = <<>>

\* C19: no query operation is fatal: when a read of the store fails, a getter
\* of DatabaseManager and an aggregation query of immune_atlas_utils alike
\* return an empty result and do not propagate the failure.
C19_NoQueryFatal ==
    query.fault => query.outcome = "returned" /\ result = <<>>

\* C20: no getter, no aggregation query and no submission of the deposit
\* form creates, modifies or deletes a stored entity: the cohorts, patients,
\* specimens, cell populations and cells stay as seeded, every patient with
\* the responder flag it was created with.
C20_StoreUnchanged ==
    [][/\ storeVars' = storeVars
       /\ \A pt \in patients : \E qt \in patients' :
             qt.patient_id = pt.patient_id /\ qt.responder = pt.responder]_vars

\* a valid deposit form was submitted and acknowledged, and the cohorts are
\* the seeded ones
C20_Witness ==
    /\ query.op = "deposit"
    /\ query.args = <<"valid">>
    /\ result = <<"Dataset submitted successfully! Thank you for your contribution.">>
    /\ cohorts = StoreCohorts

\* C30: find_discriminating_cell_types returns a row for a cell type exactly
\* when the cohort has a population row of that cell type from a responder
\* and one from a non-responder and the row passes the threshold; a cell type
\* with rows in one group only is left out.
C30_BothGroups ==
    query.op = "find_discriminating_cell_types" =>
        \A t \in DOMAIN QueryCellTypes :
            LET c == QueryCellTypes[t]
                R == GroupRows(query.cohort_id, TRUE, c)
                N == GroupRows(query.cohort_id, FALSE, c)
                rows == {i \in 1..Len(result) : result[i].cell_type = c}
                both == R # {} /\ N # {}
                passes ==
                    \/ query.min_difference <= 0
                    \/ Abs(Fl(Fl(SumPct(R), Cardinality(R))
                              - Fl(SumPct(N), Cardinality(N)), 1))
                          >= query.min_difference
            IN /\ Cardinality(rows) <= 1
               /\ rows # {} <=> (both /\ passes)

\* NK Cells has rows in both groups and is returned; B Cells has rows of
\* responders only and is left out, although no threshold applies
C30_Witness ==
    /\ query.op = "find_discriminating_cell_types"
    /\ query.min_difference <= 0
    /\ GroupRows(query.cohort_id, TRUE, "B Cells") # {}
    /\ GroupRows(query.cohort_id, FALSE, "B Cells") = {}
    /\ Len(result) = 1
    /\ result[1].cell_type = "NK Cells"

\* C29: in every group get_cell_type_comparison returns over a generated
\* store, patient_count equals the number of cell-population rows aggregated
\* in the group: a patient has at most one specimen per timepoint and a
\* specimen one population per cell type, so a patient contributes at most
\* one row to a group.
C29_PatientCountIsRowCount ==
    query.op = "get_cell_type_comparison" /\ query.outcome = "returned" =>
        \A i \in 1..Len(result) :
            LET g == {r \in MatchingRows(query.args[1], query.args[2],
                                         query.args[3]) :
                        /\ ResponderOf(r) = result[i].responder
                        /\ specimen_table[r.specimen_id].timepoint
                              = result[i].timepoint
                        /\ specimen_table[r.specimen_id].specimen_type
                              = result[i].specimen_type
                        /\ specimen_table[r.specimen_id].drug_class
                              = result[i].drug_class}
            IN /\ result[i].patient_count = Cardinality(g)
               /\ \A r1, r2 \in g :
                     SpecimenPatient[r1.specimen_id]
                        = SpecimenPatient[r2.specimen_id] => r1 = r2

\* a group with the rows of two patients is returned next to the group of
\* another specimen of one of them
C29_Witness ==
    /\ query.op = "get_cell_type_comparison"
    /\ query.outcome = "returned"
    /\ \E i, k \in 1..Len(result) :
          /\ result[i].patient_count = 2
          /\ result[k].patient_count = 1
          /\ result[k].timepoint # result[i].timepoint
          /\ result[k].responder = result[i].responder

\* C28: calculate_response_prediction_metrics reports, for every cell type,
\* avg_responder and avg_non_responder as the means of the per-patient mean
\* percentages of the responder and the non-responder patients, difference as
\* avg_responder - avg_non_responder, and group sizes that add up to
\* patient_count.
C28_MeanOfPatientMeans ==
    query.op = "calculate_response_prediction_metrics" /\ ~query.fault =>
        /\ query.outcome = "returned"
        /\ \A c \in ReportedCellTypes(query.args[1], query.args[2]) :
              LET means == PatientAverages(patients, populations,
                                           query.args[1], c)
                  resp == {m \in means : m.responder}
                  non == {m \in means : ~m.responder}
              IN \E i \in 1..Len(result) :
                    /\ result[i].cell_type = c
                    /\ result[i].patient_count = Cardinality(means)
                    /\ means # {} =>
                          result[i].responder_count
                             + result[i].non_responder_count
                             = result[i].patient_count
                    /\ resp # {} =>
                          result[i].avg_responder
                             = Fl(SumPct(resp), Cardinality(resp))
                    /\ non # {} =>
                          result[i].avg_non_responder
                             = Fl(SumPct(non), Cardinality(non))
                    /\ resp # {} /\ non # {} =>
                          result[i].difference
                             = Fl(result[i].avg_responder
                                  - result[i].avg_non_responder, 1)

\* C23 (as stated): the cell_count of every generated population is
\* percentage / 100 * total_cells rounded to the nearest integer, with
\* total_cells drawn from 100000..1000000.
C23_RoundedCount ==
    /\ total_cells \in 100000..1000000
    /\ \A i \in 1..Len(cell_populations_batch) :
          LET row == cell_populations_batch[i]
              a == IF row.percentage >= 0 THEN row.percentage
                   ELSE -row.percentage
              n == IF row.cell_count >= 0 THEN row.cell_count
                   ELSE -row.cell_count
              z == a * (total_cells \div 100)
                      + (a * (total_cells % 100)) \div 100
              f == (z % Unit) * 100 + ((a * (total_cells % 100)) % 100)
          IN \* |n - a * total_cells / (100 * Unit)| <= 1/2
             \/ n = z \div Unit /\ 2 * f <= 100 * Unit
             \/ n = z \div Unit + 1 /\ 2 * f >= 100 * Unit

\* C23 (amended): the cell_count of every generated population is
\* percentage / 100 * total_cells with the fraction cut off (towards zero), and
\* total_cells is drawn from 100000..999999.
C23_TruncatedCount ==
    /\ total_cells \in 100000..999999
    /\ \A i \in 1..Len(cell_populations_batch) :
          LET row == cell_populations_batch[i]
              a == IF row.percentage >= 0 THEN row.percentage
                   ELSE -row.percentage
              z == a * (total_cells \div 100)
                      + (a * (total_cells % 100)) \div 100
          IN /\ row.percentage >= 0 => row.cell_count = z \div Unit
             /\ row.percentage < 0 => row.cell_count = -(z \div Unit)

\* a specimen with the largest total, 999999 cells, has a population of 0.5
\* percent: 4999.995 cells, stored as 4999
C23_Witness ==
    /\ total_cells = 999999
    /\ \E i \in 1..Len(cell_populations_batch) :
          /\ cell_populations_batch[i].percentage = Unit \div 2
          /\ cell_populations_batch[i].cell_count = 4999

(***************************************************************************)
(* Specification SpecBatch: _generate_sample_cell_populations over the      *)
(* specimens of the store, one specimen a step, and the                     *)
(* _generate_individual_cells it ends with, one cell a step.  The           *)
(* cell loop is followed for runs of at most MaxCellSpecimens specimens.    *)
(***************************************************************************)
BatchInit ==
    /\ LifeIdle /\ GenIdle /\ SpecimensStart /\ QueryIdle
    /\ seeding = NoSeeding
    /\ orm = NoRows
    /\ \E n \in SpecimenCounts, p \in 0..(Len(DrawProfiles) - 1),
          t \in TotalCellsDraws :
          BatchStart("populations", n, [profile |-> p, total |-> t])

\* the populations of the specimen at position pos
PopulationsOfSpecimen(pos) ==
    SpecimenPopulations(0, 100 * Unit, draws.total, ProfileOf(draws, pos), pos,
                        next_population_id)

\* one pass of `for i, specimen in enumerate(specimens)`
GenerateSpecimenPopulations ==
    /\ phase = "populations"
    /\ processed < specimen_count
    /\ LET pos == processed + 1
           added == session_new \o PopulationsOfSpecimen(pos)
       IN /\ processed' = pos
          /\ next_population_id' = next_population_id + NumCellTypes
          /\ IF PopulationCommitDue(pos, specimen_count)
             THEN /\ commits' = Append(commits, Commit(added, <<>>, <<>>))
                  /\ session_new' = <<>>
             ELSE /\ session_new' = added
                  /\ UNCHANGED commits
    /\ UNCHANGED <<seeding, orm, phase, specimen_count, draws, cell_populations, pop_index,
                   cells_generated, next_cell_id, next_marker_id, cells_batch,
                   markers_batch,
                   lifeVars, genVars, specimenVars, queryVars>>

\* the committed populations, in the order they were inserted
RECURSIVE StoredPopulations(_)
StoredPopulations(log) ==
    IF log = <<>> THEN <<>>
    ELSE StoredPopulations(SubSeq(log, 1, Len(log) - 1)) \o log[Len(log)].populations

\* self._generate_individual_cells(), up to the loop
StartCells ==
    /\ phase = "populations"
    /\ processed = specimen_count
    /\ phase' = "cells"
    /\ cell_populations' = StoredPopulations(commits)
    /\ UNCHANGED <<seeding, orm, specimen_count, draws, processed, next_population_id,
                   session_new, commits, pop_index, cells_generated, next_cell_id,
                   next_marker_id, cells_batch, markers_batch,
                   lifeVars, genVars, specimenVars, queryVars>>

CellLoopFollowed == specimen_count <= MaxCellSpecimens

\* the loop state after the next cell of the current population
NextCell ==
    AfterCell(cell_populations[pop_index + 1],
              LoopState(cells_batch, markers_batch, next_cell_id, next_marker_id,
                        commits))

\* the current population has cells left to generate
CellsLeft ==
    /\ pop_index < Len(cell_populations)
    /\ cells_generated < CellsToGenerate(cell_populations[pop_index + 1])

\* one pass of `for j in range(cells_to_generate)`
GenerateCell ==
    /\ phase = "cells"
    /\ CellLoopFollowed
    /\ CellsLeft
    /\ cells_generated' = cells_generated + 1
    /\ cells_batch' = NextCell.cells_batch
    /\ markers_batch' = NextCell.markers_batch
    /\ next_cell_id' = NextCell.cell_id
    /\ next_marker_id' = NextCell.marker_id
    /\ commits' = NextCell.commits
    /\ UNCHANGED <<seeding, orm, phase, specimen_count, draws, processed, next_population_id,
                   session_new, cell_populations, pop_index,
                   lifeVars, genVars, specimenVars, queryVars>>

\* the next pass of `for i, population in enumerate(cell_populations)`
NextPopulation ==
    /\ phase = "cells"
    /\ CellLoopFollowed
    /\ pop_index < Len(cell_populations)
    /\ ~CellsLeft
    /\ pop_index' = pop_index + 1
    /\ cells_generated' = 0
    /\ UNCHANGED <<seeding, orm, phase, specimen_count, draws, processed, next_population_id,
                   session_new, commits, cell_populations, next_cell_id,
                   next_marker_id, cells_batch, markers_batch,
                   lifeVars, genVars, specimenVars, queryVars>>

\* `if cells_batch:` after the loop, and the return
CommitRemaining ==
    /\ phase = "cells"
    /\ CellLoopFollowed
    /\ pop_index = Len(cell_populations)
    /\ phase' = "done"
    /\ IF cells_batch # <<>>
       THEN /\ commits' = Append(commits, Commit(<<>>, cells_batch, markers_batch))
            /\ UNCHANGED <<cells_batch, markers_batch>>
       ELSE UNCHANGED <<commits, cells_batch, markers_batch>>
    /\ UNCHANGED <<seeding, orm, specimen_count, draws, processed, next_population_id,
                   session_new, cell_populations, pop_index, cells_generated,
                   next_cell_id, next_marker_id,
                   lifeVars, genVars, specimenVars, queryVars>>

\* a commit of the next step raises, or np.random.uniform does for a range
\* given out of order: the exception ends the run
RunRaises ==
    /\ \/ /\ phase = "populations"
          /\ processed < specimen_count
          /\ \/ PopulationCommitDue(processed + 1, specimen_count)
             \/ UniformOutOfOrder(0, 100 * Unit, ProfileOf(draws, processed + 1))
       \/ /\ phase = "cells"
          /\ CellLoopFollowed
          /\ \/ /\ CellsLeft
                /\ NextCell.commits # commits
             \/ /\ pop_index = Len(cell_populations)
                /\ cells_batch # <<>>
    /\ phase' = "raised"
    /\ UNCHANGED <<seeding, orm, specimen_count, draws, processed, next_population_id,
                   session_new, commits, cell_populations, pop_index,
                   cells_generated, next_cell_id, next_marker_id, cells_batch,
                   markers_batch,
                   lifeVars, genVars, specimenVars, queryVars>>

BatchNext ==
    \/ GenerateSpecimenPopulations
    \/ StartCells
    \/ GenerateCell
    \/ NextPopulation
    \/ CommitRemaining
    \/ RunRaises

SpecBatch == BatchInit /\ [][BatchNext]_vars

(***************************************************************************)
(* Specification SpecSeed: the four calls of load_sample_data's seeding     *)
(* branch on a store without rows, which is the only store the branch is    *)
(* entered on: cohorts are committed first and no operation deletes a row.  *)
(* Rows carry their key and reference columns.  The draws of a run follow   *)
(* from one number drawn at its start.  The cells of the populations are    *)
(* the subject of SpecBatch and are not held here.                          *)
(***************************************************************************)
\* the numbers a run's draws follow from, one for every outcome of
\* np.random.randint(2, 6)
SeedDraws == 0..(Cardinality(Randint(2, 6)) - 1)

SeedInit ==
    /\ LifeIdle /\ GenIdle /\ SpecimensStart /\ QueryIdle
    /\ BatchStart("idle", 0, [profile |-> 0, total |-> 100000])
    /\ orm = NoRows
    /\ \E d \in SeedDraws : seeding = [NoSeeding EXCEPT !.stage = "cohorts",
                                                         !.draw = d]

\* a patient loop that numbers the patients of every cohort from 1 (variant
\* of CohortPatients)
CohortPatientsFromOne(cohort, first_id, d) ==
    [k \in 1..cohort.patients_count |->
        [patient_id |-> k, cohort_id |-> cohort.cohort_id,
         responder |-> (first_id + k - 1 + d) % 3 = 0]]

\* `for _ in range(cohort.patients_count)`: the patients of one cohort,
\* patient_id counting on from first_id
CohortPatients(cohort, first_id, d) ==
    [k \in 1..cohort.patients_count |->
        [patient_id |-> first_id + k - 1, cohort_id |-> cohort.cohort_id,
         responder |-> (first_id + k - 1 + d) % 3 = 0]]

\* the specimens of one patient: randint(2, 6) of them at different
\* timepoints, specimen_id counting on from first_id
PatientSpecimens(patient, first_id, d) ==
    LET num_specimens == 2 + ((patient.patient_id + d) % Cardinality(Randint(2, 6)))
    IN [x \in 1..num_specimens |->
           [specimen_id |-> first_id + x - 1,
            patient_id |-> patient.patient_id,
            timepoint |-> timepoints[((patient.patient_id + d + x)
                                         % Len(timepoints)) + 1],
            specimen_type |-> specimen_types[((patient.patient_id + x)
                                                 % Len(specimen_types)) + 1],
            drug_class |-> drug_classes[((patient.patient_id + d + 2 * x)
                                            % Len(drug_classes)) + 1]]]

\* the draws of the population loop for a run with draw d
PopulationDraws(d) ==
    [profile |-> d, total |-> IF d % 2 = 0 THEN 100000 ELSE 999999]

\* the populations of all specimens, cell_id counting from 1
AllPopulations(rows, d) ==
    UNION { Range(SpecimenPopulations(0, 100 * Unit, PopulationDraws(d).total,
                                      ProfileOf(PopulationDraws(d), pos),
                                      rows[pos].specimen_id,
                                      NumCellTypes * (pos - 1) + 1))
            : pos \in 1..Len(rows) }

\* _load_cohorts
LoadCohorts ==
    /\ seeding.stage = "cohorts"
    /\ cohorts' = Range(cohorts_data)
    /\ seeding' = [seeding EXCEPT !.stage = "patients", !.rows = cohorts_data]
    /\ UNCHANGED <<patients, specimen_table, populations, cells, query, df,
                   result, loopVars, orm, lifeVars, genVars, specimenVars>>

\* _generate_sample_patients: one pass of `for cohort in cohorts`
GenerateCohortPatients ==
    /\ seeding.stage = "patients"
    /\ seeding.done < Len(seeding.rows)
    /\ LET new == CohortPatients(seeding.rows[seeding.done + 1], seeding.next_id,
                                 seeding.draw)
       IN seeding' = [seeding EXCEPT !.done = @ + 1, !.next_id = @ + Len(new),
                                     !.pending = @ \o new]
    /\ UNCHANGED <<storeVars, query, df, result, loopVars, orm, lifeVars, genVars,
                   specimenVars>>

\* self.session.add_all(patients); self.session.commit(), and the query
\* _generate_sample_specimens starts with
CommitPatients ==
    /\ seeding.stage = "patients"
    /\ seeding.done = Len(seeding.rows)
    /\ patients' = Range(seeding.pending)
    /\ seeding' = [seeding EXCEPT !.stage = "specimens", !.rows = seeding.pending,
                                  !.done = 0, !.next_id = 1, !.pending = <<>>]
    /\ UNCHANGED <<cohorts, specimen_table, populations, cells, query, df,
                   result, loopVars, orm, lifeVars, genVars, specimenVars>>

\* _generate_sample_specimens: one pass of `for patient in patients`
GenerateSpecimensOfPatient ==
    /\ seeding.stage = "specimens"
    /\ seeding.done < Len(seeding.rows)
    /\ LET new == PatientSpecimens(seeding.rows[seeding.done + 1],
                                   seeding.next_id, seeding.draw)
       IN seeding' = [seeding EXCEPT !.done = @ + 1, !.next_id = @ + Len(new),
                                     !.pending = @ \o new]
    /\ UNCHANGED <<storeVars, query, df, result, loopVars, orm, lifeVars, genVars,
                   specimenVars>>

\* self.session.add_all(specimens); self.session.commit()
CommitAllSpecimens ==
    /\ seeding.stage = "specimens"
    /\ seeding.done = Len(seeding.rows)
    /\ specimen_table' = seeding.pending
    /\ seeding' = [seeding EXCEPT !.stage = "populations",
                                  !.rows = seeding.pending, !.done = 0,
                                  !.next_id = 1, !.pending = <<>>]
    /\ UNCHANGED <<cohorts, patients, populations, cells, query, df,
                   result, loopVars, orm, lifeVars, genVars, specimenVars>>

\* _generate_sample_cell_populations, all its commits
GenerateAllPopulations ==
    /\ seeding.stage = "populations"
    /\ populations' = AllPopulations(seeding.rows, seeding.draw)
    /\ seeding' = [seeding EXCEPT !.stage = "done",
                                  !.done = Len(seeding.rows),
                                  !.next_id = NumCellTypes * Len(seeding.rows) + 1]
    /\ UNCHANGED <<cohorts, patients, specimen_table, cells, query, df,
                   result, loopVars, orm, lifeVars, genVars, specimenVars>>

\* the commit of a stage raises, or np.random.uniform does in the population
\* loop: the branch is left with what earlier stages committed
SeedingRaises ==
    /\ \/ seeding.stage = "cohorts"
       \/ seeding.stage \in {"patients", "specimens"}
             /\ seeding.done = Len(seeding.rows)
       \/ seeding.stage = "populations"
    /\ seeding' = [seeding EXCEPT !.stage = "raised"]
    /\ UNCHANGED <<storeVars, query, df, result, loopVars, orm, lifeVars, genVars,
                   specimenVars>>

SeedNext ==
    \/ LoadCohorts
    \/ GenerateCohortPatients
    \/ CommitPatients
    \/ GenerateSpecimensOfPatient
    \/ CommitAllSpecimens
    \/ GenerateAllPopulations
    \/ SeedingRaises

SpecSeed == SeedInit /\ [][SeedNext]_vars

\* the key column holds n different values in a table of n rows
DistinctKeys(keys, rows, n) == Cardinality(keys) = n /\ Cardinality(rows) = n

\* C24: after the seeding branch has completed, every cohort has exactly
\* patients_count patients, every patient references exactly one stored
\* cohort, every specimen a stored patient, every population a stored
\* specimen, and the keys the generators assigned are pairwise different
\* within each table.
C24_ReferentialIntegrity ==
    seeding.stage = "done" =>
        LET specimen_rows == Range(specimen_table)
        IN /\ \A c \in cohorts :
                 Cardinality({q \in patients : q.cohort_id = c.cohort_id})
                     = c.patients_count
           /\ \A q \in patients :
                 Cardinality({c \in cohorts : c.cohort_id = q.cohort_id}) = 1
           /\ {r.patient_id : r \in specimen_rows}
                 \subseteq {q.patient_id : q \in patients}
           /\ {r.specimen_id : r \in populations}
                 \subseteq {r.specimen_id : r \in specimen_rows}
           /\ DistinctKeys({c.cohort_id : c \in cohorts}, cohorts,
                           Len(cohorts_data))
           /\ DistinctKeys({q.patient_id : q \in patients}, patients,
                           SumOver(cohorts,
                                   [c \in cohorts |-> c.patients_count]))
           /\ DistinctKeys({r.specimen_id : r \in specimen_rows}, specimen_rows,
                           Len(specimen_table))
           /\ DistinctKeys({r.id : r \in populations}, populations,
                           NumCellTypes * Len(specimen_table))

\* a completed seeding with the patients of all five cohorts, their
\* specimens and the populations of those
C24_Witness ==
    /\ seeding.stage = "done"
    /\ Cardinality(cohorts) = 5
    /\ Cardinality(patients) = 524
    /\ Len(specimen_table) >= 2 * 524
    /\ Cardinality(populations) = 8 * Len(specimen_table)

\* the cells and the marker measurements the commits of the run wrote
RECURSIVE StoredCells(_)
StoredCells(log) ==
    IF log = <<>> THEN <<>>
    ELSE StoredCells(SubSeq(log, 1, Len(log) - 1)) \o log[Len(log)].cells

RECURSIVE StoredMarkers(_)
StoredMarkers(log) ==
    IF log = <<>> THEN <<>>
    ELSE StoredMarkers(SubSeq(log, 1, Len(log) - 1)) \o log[Len(log)].markers

\* C26: after _generate_individual_cells has completed, every stored
\* population has exactly min(100, cell_count) cells, none when cell_count is
\* zero or negative, and each of its cells carries the population's
\* specimen_id.
C26_CellsPerPopulation ==
    phase = "done" =>
        LET stored == Range(StoredCells(commits))
        IN \A p \in Range(StoredPopulations(commits)) :
              LET own == {c \in stored : c.population_id = p.id}
              IN /\ Cardinality(own) =
                        IF p.cell_count <= 0 THEN 0 ELSE Min(100, p.cell_count)
                 /\ \A c \in own : c.specimen_id = p.specimen_id

\* a completed run over populations with a negative count, with a count
\* below the limit and with a count above it
C26_Witness ==
    /\ phase = "done"
    /\ \E x, y, z \in 1..Len(cell_populations) :
          /\ cell_populations[x].cell_count < 0
          /\ cell_populations[y].cell_count \in 1..99
          /\ cell_populations[z].cell_count > 100
          /\ \E c \in Range(StoredCells(commits)) :
                c.population_id = cell_populations[y].id

\* the specimens a list of populations belongs to
SpecimensOf(pops) == {pops[x].specimen_id : x \in 1..Len(pops)}

\* the ids 1..n are those of the rows, each once
EachOnce(ids, n) == Len(ids) = n /\ Range(ids) = 1..n

\* C27: the batched commits lose and duplicate nothing.  Never more than 1000
\* cells, or the populations of more than 500 specimens, await a commit or
\* are written by one; every marker measurement is in the batch, and in the
\* commit, of its cell; when the population loop has ended every generated
\* population is committed exactly once, and when the run has completed so
\* is every generated cell and marker measurement.
C27_BatchedCommits ==
    /\ Len(cells_batch) <= 1000
    /\ Cardinality(SpecimensOf(session_new)) <= 500
    /\ \A c \in 1..Len(commits) :
          /\ Len(commits[c].cells) <= 1000
          /\ Cardinality(SpecimensOf(commits[c].populations)) <= 500
    /\ {markers_batch[x].cell_id : x \in 1..Len(markers_batch)}
          \subseteq {cells_batch[x].cell_id : x \in 1..Len(cells_batch)}
    /\ phase \in {"done", "raised"} =>
          \A c \in 1..Len(commits) :
              {commits[c].markers[x].cell_id : x \in 1..Len(commits[c].markers)}
                  \subseteq
              {commits[c].cells[x].cell_id : x \in 1..Len(commits[c].cells)}
    /\ phase \in {"cells", "done"} =>
          /\ session_new = <<>>
          /\ LET pops == StoredPopulations(commits)
             IN EachOnce([x \in 1..Len(pops) |-> pops[x].id],
                         next_population_id - 1)
    /\ phase = "done" =>
          /\ LET cs == StoredCells(commits)
             IN EachOnce([x \in 1..Len(cs) |-> cs[x].cell_id], next_cell_id - 1)
          /\ LET ms == StoredMarkers(commits)
             IN EachOnce([x \in 1..Len(ms) |-> ms[x].id], next_marker_id - 1)

\* a completed run whose cells were written by a full batch and a last one
C27_Witness ==
    /\ phase = "done"
    /\ Len(commits) >= 3
    /\ \E c \in 1..Len(commits) :
          Len(commits[c].cells) = 1000 /\ commits[c].markers # <<>>
    /\ commits[Len(commits)].cells # <<>>
    /\ Len(commits[Len(commits)].cells) < 1000

\* C25: after seed_database has completed without error the store holds
\* exactly one MarkerData row for every (cohort, marker, timepoint) triple of
\* its cohorts, markers and timepoints.
C25_OneMarkerDataPerTriple ==
    (/\ last.op = "seed_database"
     /\ last.outcome = "returned"
     /\ last.trace = <<"init_ok", "seed_ok">>)
        => Cardinality(pkg.marker_data) =
               Cardinality(pkg.cohorts) * Cardinality(pkg.markers)
                   * Cardinality(pkg.timepoints)

\* C22: initialization is idempotent.  In every state a DatabaseManager can
\* be in, init_db at the URL of its engine, as the except block of
\* load_sample_data calls it, leaves every record of the store at that URL
\* as it is, whichever database the call ends up with.
C22_InitKeepsRecords ==
    alive =>
        \A i \in InitOutcomes(url, MaxFaults) :
            i.ok => AfterInit(db, i.url)[url] = db[url]

(***************************************************************************)
(* Specification SpecDelete: session.delete of one row after another, with  *)
(* the commit, under the relationships the two model files declare.  A row  *)
(* is [key, fk, parents]: its key <<class, id>>, its foreign-key columns    *)
(* with the key each one holds, and the keys it was inserted under.  For a  *)
(* one-to-many relationship whose cascade includes delete the unit of work  *)
(* deletes the children with the parent; for one without it sets the        *)
(* foreign key of the children to NULL; a foreign key without a             *)
(* relationship on the parent is left as it is.                             *)
(***************************************************************************)
NullRef == <<"NULL", 0>>

\* the cascade of a relationship declared without one
DefaultCascade == {"save-update", "merge"}

\* cascade="all, delete-orphan"
AllDeleteOrphan ==
    {"save-update", "merge", "refresh-expire", "expunge", "delete",
     "delete-orphan"}

\* the one-to-many relationships of models.py and of database/models.py
Relationships ==
    {[parent |-> "Cohort", child |-> "Patient", column |-> "cohort_id",
      cascade |-> AllDeleteOrphan],
     [parent |-> "Patient", child |-> "Specimen", column |-> "patient_id",
      cascade |-> AllDeleteOrphan],
     [parent |-> "Specimen", child |-> "CellPopulation", column |-> "specimen_id",
      cascade |-> AllDeleteOrphan],
     [parent |-> "Specimen", child |-> "Cell", column |-> "specimen_id",
      cascade |-> AllDeleteOrphan],
     [parent |-> "CellPopulation", child |-> "Cell", column |-> "population_id",
      cascade |-> AllDeleteOrphan],
     [parent |-> "Cell", child |-> "CellMarker", column |-> "cell_id",
      cascade |-> AllDeleteOrphan],
     [parent |-> "database.Cohort", child |-> "MarkerData",
      column |-> "cohort_id", cascade |-> DefaultCascade],
     [parent |-> "database.Cohort", child |-> "CellTypeData",
      column |-> "cohort_id", cascade |-> DefaultCascade],
     [parent |-> "database.Marker", child |-> "MarkerData",
      column |-> "marker_id", cascade |-> DefaultCascade]}

Row(class, id, fk) == [key |-> <<class, id>>, fk |-> fk, parents |-> fk]

\* an excerpt of a store of DatabaseManager: two cohorts, the first with two
\* patients, specimens, populations, cells and marker measurements
ManagerRows ==
    {Row("Cohort", 1, <<>>), Row("Cohort", 2, <<>>),
     Row("Patient", 1, [cohort_id |-> <<"Cohort", 1>>]),
     Row("Patient", 2, [cohort_id |-> <<"Cohort", 1>>]),
     Row("Patient", 3, [cohort_id |-> <<"Cohort", 2>>]),
     Row("Specimen", 1, [patient_id |-> <<"Patient", 1>>]),
     Row("Specimen", 2, [patient_id |-> <<"Patient", 1>>]),
     Row("Specimen", 3, [patient_id |-> <<"Patient", 2>>]),
     Row("CellPopulation", 1, [specimen_id |-> <<"Specimen", 1>>]),
     Row("CellPopulation", 2, [specimen_id |-> <<"Specimen", 1>>]),
     Row("CellPopulation", 9, [specimen_id |-> <<"Specimen", 2>>]),
     Row("Cell", 1, [specimen_id |-> <<"Specimen", 1>>,
                     population_id |-> <<"CellPopulation", 1>>]),
     Row("Cell", 2, [specimen_id |-> <<"Specimen", 1>>,
                     population_id |-> <<"CellPopulation", 2>>]),
     Row("CellMarker", 1, [cell_id |-> <<"Cell", 1>>]),
     Row("CellMarker", 2, [cell_id |-> <<"Cell", 1>>]),
     Row("CellMarker", 6, [cell_id |-> <<"Cell", 2>>])}

\* an excerpt of the store seed_database fills: cohorts, markers, timepoints
\* and cell type data; seed_marker_data stores no row
PackageRows ==
    {Row("database.Cohort", 1, <<>>), Row("database.Cohort", 2, <<>>),
     Row("database.Marker", 1, <<>>), Row("database.Timepoint", 1, <<>>),
     Row("CellTypeData", 1, [cohort_id |-> <<"database.Cohort", 1>>]),
     Row("CellTypeData", 2, [cohort_id |-> <<"database.Cohort", 1>>]),
     Row("CellTypeData", 10, [cohort_id |-> <<"database.Cohort", 2>>])}

\* the rows a cascade reaches from the keys: the children, through a
\* relationship whose cascade includes delete, of a row that is deleted
RECURSIVE Cascade(_, _)
Cascade(rows, keys) ==
    LET more == {x.key : x \in
                   {x \in rows :
                      \E r \in Relationships :
                         /\ "delete" \in r.cascade
                         /\ x.key[1] = r.child
                         /\ x.fk[r.column] \in keys
                         /\ x.fk[r.column][1] = r.parent}}
    IN IF more \subseteq keys THEN keys ELSE Cascade(rows, keys \cup more)

\* the row after the parents in keys are deleted: the foreign keys of a
\* relationship without delete cascade are set to NULL
Detached(x, keys) ==
    [x EXCEPT !.fk =
        [c \in DOMAIN x.fk |->
            IF /\ x.fk[c] \in keys
               /\ \E r \in Relationships :
                     /\ r.child = x.key[1]
                     /\ r.column = c
                     /\ r.parent = x.fk[c][1]
            THEN NullRef
            ELSE x.fk[c]]]

\* session.delete(row); session.commit()
Delete(rows, key) ==
    LET gone == Cascade(rows, {key})
    IN [rows |-> {Detached(x, gone) : x \in {y \in rows : y.key \notin gone}},
        gone |-> gone]

DeleteInit ==
    /\ LifeIdle /\ GenIdle /\ SpecimensStart /\ QueryIdle
    /\ BatchStart("idle", 0, [profile |-> 0, total |-> 100000])
    /\ seeding = NoSeeding
    /\ \E rows \in {ManagerRows, PackageRows} :
          orm = [rows |-> rows, deleted |-> {}]

DeleteRow ==
    /\ \E x \in orm.rows :
          LET d == Delete(orm.rows, x.key)
          IN orm' = [rows |-> d.rows, deleted |-> orm.deleted \cup d.gone]
    /\ UNCHANGED <<lifeVars, genVars, specimenVars, queryVars, loopVars, seeding>>

DeleteNext == DeleteRow

SpecDelete == DeleteInit /\ [][DeleteNext]_vars

\* the keys a row was inserted under
ParentKeys(key) ==
    LET x == CHOOSE x \in ManagerRows \cup PackageRows : x.key = key
    IN {x.parents[c] : c \in DOMAIN x.parents}

\* the keys a row descends from: those it was inserted under, and theirs
RECURSIVE AncestorKeys(_)
AncestorKeys(keys) ==
    LET up == UNION {ParentKeys(k) : k \in keys}
    IN IF up \subseteq keys THEN keys ELSE AncestorKeys(keys \cup up)

\* C21: deleting a parent cascades to all its descendants.  No row that
\* descends from a deleted cohort, patient, specimen, population or cell
\* remains, the MarkerData and CellTypeData rows of a deleted cohort
\* included, and no remaining row references a deleted row.
C21_DeleteCascades ==
    \A x \in orm.rows :
        /\ (AncestorKeys({x.key}) \ {x.key}) \cap orm.deleted = {}
        /\ \A c \in DOMAIN x.fk : x.fk[c] \notin orm.deleted
====
